---- MODULE Spec2Model ----
(***************************************************************************)
(* A model of tscat: events and catalogues kept in a SQLAlchemy session    *)
(* (tscat/orm_sqlalchemy) behind in-process handles (tscat/base.py).       *)
(*                                                                         *)
(* Three layers are kept apart, as in the program:                         *)
(*   disk     the rows of the last commit() of the session;                *)
(*   ev, cat, members                                                      *)
(*            the ORM objects of the session and the rows of the open      *)
(*            transaction (autoflush makes them what every query sees);    *)
(*   evH, catH                                                             *)
(*            the _Event/_Catalogue handles of the caller, which carry     *)
(*            their own copy of every field.                               *)
(* One handle per entity is modelled (the one create_* returned); a handle *)
(* whose ORM object left the session (its insert was rolled back) is used  *)
(* by no action.                                                           *)
(*                                                                         *)
(* The bundle export_json() last returned is kept in blob.                 *)
(*                                                                         *)
(* The specifications share the actions:                                   *)
(*   Spec       the transaction model: writes, removals, save(), discard() *)
(*              from an empty store;                                       *)
(*   SpecQuery  the query model: a saved store whose catalogues are given  *)
(*              predicates and members, and every kind of query;           *)
(*   SpecValid  the validation model: one event and one catalogue created  *)
(*              with and assigned acceptable and unacceptable values;      *)
(*   SpecCompare  comparisons on an attribute of several types;            *)
(*   SpecImport   export_json() and import_json() between writes,          *)
(*              removals, save() and discard().                            *)
(***************************************************************************)
EXTENDS Integers, Sequences, FiniteSets, TLC

\* ---------------------------------------------------------------- bounds
MaxEvents == 2
MaxCats == 2
MaxTime == 2
MaxOps == 5
MaxQueryOps == 4
MaxCompareOps == 2
MaxImportOps == 5
MaxDeleteOps == 3
MaxUuidOps == 4

EvIds == 1..MaxEvents
CatIds == 1..MaxCats
Times == 1..MaxTime

\* ---------------------------------------------------------------- values
\* Python values of the kinds the code distinguishes, as uniform records.
NoneV == [t |-> "none", v |-> 0, s |-> <<>>]
IntV(n) == [t |-> "int", v |-> n, s |-> <<>>]
FloatV(n) == [t |-> "float", v |-> n, s |-> <<>>]
StrV(chars) == [t |-> "str", v |-> 0, s |-> chars]

Letters == {"a", "b", "P", "Q", "t"}
Digits == {"1"}

\* base.py:13  _valid_key = re.compile(r'^[A-Za-z][A-Za-z_0-9]*$'); used with
\* match(): '$' also matches before one trailing newline.
_valid_key(k) ==
    LET body == IF Len(k) > 1 /\ k[Len(k)] = "\n" THEN SubSeq(k, 1, Len(k) - 1) ELSE k
    IN  /\ Len(body) >= 1
        /\ body[1] \in Letters
        /\ \A i \in 1..Len(body) : body[i] \in Letters \cup Digits \cup {"_"}

\* base.py:32-36
_verify_attribute_names(kwargs) == \A k \in DOMAIN kwargs : _valid_key(k)

\* uuid.UUID(value, version=4): parses the hexadecimal form and overwrites the
\* version bits, so it raises only for a string that is not a UUID at all.
\* A UUID string is modelled by its form and a serial number.
UuidV(form, n) == [form |-> form, n |-> n]
UUID_parses(u) == u.form \in {"v4", "v1"}

\* ',' in v  for a str v
HasComma(chars) == \E i \in 1..Len(chars) : chars[i] = ","

\* base.py:200-204 and 266-270: the check of a tags/products value
StringListError(value) ==
    \/ \E i \in 1..Len(value) : value[i].t # "str"
    \/ \E i \in 1..Len(value) : value[i].t = "str" /\ HasComma(value[i].s)

\* base.py:205-210
RatingError(value) ==
    /\ value.t # "none"
    /\ \/ value.t # "int"
       \/ value.v < 1
       \/ value.v > 10

\* ------------------------------------------------------------ predicates
\* Predicate objects (tscat/filtering.py) have an identity, id(pred), which
\* the visitor's visited set is keyed by.  The objects a client has built are
\* an arena: object number -> node.  InCatalogue holds a reference to a
\* catalogue handle (0 for InCatalogue(None)).
NoPred == 0

Field(name) == [kind |-> "Field", value |-> name]
Attribute(name) == [kind |-> "Attribute", value |-> name]
NoMember == [kind |-> "", value |-> ""]

Comparison(op, lhs, rhs) == [k |-> "Comparison", op |-> op, lhs |-> lhs, rhs |-> rhs, args |-> <<>>, cat |-> 0]
AllP(args) == [k |-> "All", op |-> "", lhs |-> NoMember, rhs |-> NoneV, args |-> args, cat |-> 0]
AnyP(args) == [k |-> "Any", op |-> "", lhs |-> NoMember, rhs |-> NoneV, args |-> args, cat |-> 0]
NotP(arg) == [k |-> "Not", op |-> "", lhs |-> NoMember, rhs |-> NoneV, args |-> <<arg>>, cat |-> 0]
InCatalogue(c) == [k |-> "InCatalogue", op |-> "", lhs |-> NoMember, rhs |-> NoneV, args |-> <<>>, cat |-> c]

\* the comparison operators of Comparison (filtering.py:81-93)
CompareOps == <<"==", "!=", "<", "<=", ">", ">=">>

Arena ==
    <<  Comparison("==", Field("author"), StrV(<<"P">>)),      \* 1
        InCatalogue(1),                \* 2
        InCatalogue(2),                \* 3
        NotP(1),                       \* 4
        AnyP(<<2, 3>>),                \* 5
        AllP(<<1, 3>>),                \* 6
        InCatalogue(0),                \* 7
        NotP(2)                        \* 8
    >>
    \o [n \in 1..6 |-> Comparison(CompareOps[n], Attribute(<<"a">>), IntV(1))]        \* 9..14
    \o [n \in 1..6 |-> Comparison(CompareOps[n], Attribute(<<"a">>), StrV(<<"a">>))]  \* 15..20
    \o << NotP(9), NotP(15) >>                                                       \* 21, 22

PredIds == 1..Len(Arena)

\* --------------------------------------------------------------- records
NoUuid == UuidV("none", 0)
NoAttrs == [k \in {} |-> NoneV]

\* fixed fields and variable attributes of an event (_Event._fixed_keys)
EventData(uuid, start, stop, author, tags, products, rating, attrs) ==
    [uuid |-> uuid, start |-> start, stop |-> stop, author |-> author,
     tags |-> tags, products |-> products, rating |-> rating, attrs |-> attrs]

\* fixed fields and variable attributes of a catalogue (_Catalogue._fixed_keys)
CatalogueData(uuid, name, author, tags, predicate, attrs) ==
    [uuid |-> uuid, name |-> name, author |-> author, tags |-> tags,
     predicate |-> predicate, attrs |-> attrs]

BlankEvent == EventData(NoUuid, 1, 1, <<>>, <<>>, <<>>, NoneV, NoAttrs)
BlankCatalogue == CatalogueData(NoUuid, <<>>, <<>>, <<>>, NoPred, NoAttrs)

\* An ORM object (orm.Event / orm.Catalogue) and its place in the session:
\*   "free"     not constructed yet
\*   "live"     pending or persistent: its row is what queries see
\*   "deleted"  session.delete() was called in the open transaction
\*   "gone"     no longer in the session (insert rolled back, delete committed)
Obj(st, removed, d) == [st |-> st, removed |-> removed, d |-> d]

\* A committed row
Row(present, removed, d) == [present |-> present, removed |-> removed, d |-> d]

\* A handle (_Event / _Catalogue): "none" not constructed, "valid" has a
\* _backend_entity, "invalid" its _backend_entity was deleted (base.py:138)
Handle(st, removed, d) == [st |-> st, _removed |-> removed, d |-> d]

\* a handle that never loses its _backend_entity
has_backend_entity_always(h) == TRUE

\* _BackendBasedEntity.__getattr__ (base.py:98-103): reading _backend_entity
\* raises ValueError once remove(permanently=True) has deleted it; every other
\* name is an ordinary attribute of the handle
has_backend_entity(h) == h.st = "valid"

VARIABLES
    ev,         \* [EvIds -> Obj]   orm.Event objects
    cat,        \* [CatIds -> Obj]  orm.Catalogue objects
    members,    \* rows of event_in_catalogue: set of <<catalogue id, event id>>
    disk,       \* the state of the last commit: [ev, cat, members]
    evH,        \* [EvIds -> Handle]   the _Event handle of each event
    catH,       \* [CatIds -> Handle]  the _Catalogue handle of each catalogue
    last,       \* the last call and how it ended
    saved,      \* what the queries returned at the last save() (history)
    ops,        \* number of calls made so far
    blob,       \* the bundle the last export_json() returned
    in_transaction  \* session.in_transaction(): a transaction is open

vars == <<ev, cat, members, disk, evH, catH, last, saved, ops, blob, in_transaction>>

\* ---------------------------------------------------------------- queries
\* The rows a query of the session sees (autoflush: every pending change and
\* every session.delete() is flushed before the SELECT).
Table(orm_class) ==
    IF orm_class = "Event" THEN {i \in EvIds : ev[i].st = "live"}
    ELSE {i \in CatIds : cat[i].st = "live"}

RowOf(orm_class, i) == IF orm_class = "Event" THEN ev[i] ELSE cat[i]

\* the value of a column of a row, as a Python value
ColumnValue(orm_class, i, name) ==
    LET d == RowOf(orm_class, i).d
    IN  CASE name = "author" -> StrV(d.author)
          [] name = "start" /\ orm_class = "Event" -> IntV(d.start)
          [] name = "stop" /\ orm_class = "Event" -> IntV(d.stop)
          [] name = "rating" /\ orm_class = "Event" -> d.rating
          [] name = "name" /\ orm_class = "Catalogue" -> StrV(d.name)
          [] OTHER -> NoneV

\* the code point of a character, for the order of strings
CodePoint(ch) ==
    CASE ch = "\n" -> 10 [] ch = "1" -> 49 [] ch = "P" -> 80 [] ch = "Q" -> 81
      [] ch = "_" -> 95 [] ch = "a" -> 97 [] ch = "b" -> 98 [] ch = "t" -> 116

\* x < y for two strings, compared character by character
RECURSIVE StrLess(_, _)
StrLess(x, y) ==
    IF y = <<>> THEN FALSE
    ELSE IF x = <<>> THEN TRUE
    ELSE IF Head(x) # Head(y) THEN CodePoint(Head(x)) < CodePoint(Head(y))
    ELSE StrLess(Tail(x), Tail(y))

\* x < y for two values of one type
Less(a, b) == IF a.t = "str" THEN StrLess(a.s, b.s) ELSE a.v < b.v

\* operator.__eq__ ... __ge__ on two values of one type, as SQL compares them
op_map(op, a, b) ==
    /\ a.t = b.t
    /\ a.t # "none"
    /\ CASE op = "==" -> a = b
         [] op = "!=" -> a # b
         [] op = "<" -> Less(a, b)
         [] op = "<=" -> ~Less(b, a)
         [] op = ">" -> Less(b, a)
         [] op = ">=" -> ~Less(a, b)

\* a visitor that compiles != as the negation of ==
_visit_comparison_negating(orm_class, comp) ==
    IF comp.lhs.kind = "Field"
    THEN {i \in Table(orm_class) : op_map(comp.op, ColumnValue(orm_class, i, comp.lhs.value), comp.rhs)}
    ELSE {i \in Table(orm_class) :
            LET attrs == RowOf(orm_class, i).d.attrs
            IN  IF comp.op = "!="
                THEN ~ \E key \in DOMAIN attrs :
                        /\ key = comp.lhs.value
                        /\ op_map("==", attrs[key], comp.rhs)
                ELSE \E key \in DOMAIN attrs :
                        /\ key = comp.lhs.value
                        /\ op_map(comp.op, attrs[key], comp.rhs)}

\* PredicateVisitor._visit_comparison (orm_sqlalchemy/__init__.py:29-47): the
\* rows the compiled comparison holds of
_visit_comparison(orm_class, comp) ==
    IF comp.lhs.kind = "Field"
    THEN {i \in Table(orm_class) : op_map(comp.op, ColumnValue(orm_class, i, comp.lhs.value), comp.rhs)}
    ELSE {i \in Table(orm_class) :
            LET attrs == RowOf(orm_class, i).d.attrs
            IN  \E key \in DOMAIN attrs :
                    /\ key = comp.lhs.value
                    /\ op_map(comp.op, attrs[key], comp.rhs)}

\* catalogues.any() without the id of the catalogue
AssignedTo_any(c) == {e \in Table("Event") : \E k \in CatIds : <<k, e>> \in members}

\* orm_class.catalogues.any(id=c): the events with a row in event_in_catalogue
AssignedTo(c) == {e \in Table("Event") : <<c, e>> \in members}

\* ~orm_class.catalogues.any()
InNoCatalogue == {e \in Table("Event") : ~ \E c \in Table("Catalogue") : <<c, e>> \in members}

Res(err, visited, rows) == [err |-> err, visited |-> visited, rows |-> rows]

\* The depth at which the interpreter gives up a recursion that does not end:
\* beyond every nesting of the predicates that are no comparisons.
StackLimit == Cardinality({n \in PredIds : Arena[n].k # "Comparison"}) + 2

RECURSIVE visit_predicate(_, _, _, _)
RECURSIVE VisitEach(_, _, _, _, _)

\* self.visit_predicate(pred) for pred in preds, in order; stops at the first raise
VisitEach(orm_class, preds, visited, depth, acc) ==
    IF preds = <<>> THEN Res("none", visited, acc)
    ELSE LET r == visit_predicate(orm_class, Head(preds), visited, depth)
         IN  IF r.err # "none" THEN r
             ELSE VisitEach(orm_class, Tail(preds), r.visited, depth, Append(acc, r.rows))

\* a visitor that compiles InCatalogue for catalogues as it does for events
_visit_in_catalogue_unguarded(orm_class, node, visited, depth) ==
    IF node.cat = 0 THEN Res("none", visited, {})
    ELSE IF catH[node.cat].d.predicate # NoPred
    THEN IF ~has_backend_entity(catH[node.cat]) THEN Res("InvalidHandle", visited, {})
         ELSE LET r == visit_predicate(orm_class, catH[node.cat].d.predicate, visited, depth)
              IN  IF r.err # "none" THEN r
                  ELSE Res("none", r.visited, r.rows)
    ELSE IF ~has_backend_entity(catH[node.cat]) THEN Res("InvalidHandle", visited, {})
         ELSE Res("none", visited, {})

\* PredicateVisitor._visit_in_catalogue (orm_sqlalchemy/__init__.py:69-79)
_visit_in_catalogue(orm_class, node, visited, depth) ==
    IF orm_class = "Catalogue" THEN Res("CatalogueFilterError", visited, {})
    ELSE IF node.cat = 0 THEN Res("none", visited, InNoCatalogue)
    ELSE IF catH[node.cat].d.predicate # NoPred
    THEN IF ~has_backend_entity(catH[node.cat]) THEN Res("InvalidHandle", visited, {})
         ELSE LET r == visit_predicate(orm_class, catH[node.cat].d.predicate, visited, depth)
              IN  IF r.err # "none" THEN r
                  ELSE Res("none", r.visited, AssignedTo(node.cat) \cup r.rows)
    ELSE IF ~has_backend_entity(catH[node.cat]) THEN Res("InvalidHandle", visited, {})
         ELSE Res("none", visited, AssignedTo(node.cat))

\* a visitor that keeps no set of visited predicates
RECURSIVE visit_predicate_unchecked(_, _, _, _)
visit_predicate_unchecked(orm_class, pred, visited, depth) ==
    IF depth > StackLimit THEN Res("StackOverflow", visited, {})
    ELSE LET node == Arena[pred]
         IN  CASE node.k = "Comparison" ->
                    Res("none", visited, _visit_comparison(orm_class, node))
               [] node.k = "All" ->
                    LET r == VisitEach(orm_class, node.args, visited, depth + 1, <<>>)
                    IN  IF r.err # "none" THEN r
                        ELSE Res("none", r.visited,
                                 {i \in Table(orm_class) : \A n \in 1..Len(r.rows) : i \in r.rows[n]})
               [] node.k = "Any" ->
                    LET r == VisitEach(orm_class, node.args, visited, depth + 1, <<>>)
                    IN  IF r.err # "none" THEN r
                        ELSE Res("none", r.visited,
                                 {i \in Table(orm_class) : \E n \in 1..Len(r.rows) : i \in r.rows[n]})
               [] node.k = "Not" ->
                    LET r == visit_predicate(orm_class, node.args[1], visited, depth + 1)
                    IN  IF r.err # "none" THEN r
                        ELSE Res("none", r.visited, Table(orm_class) \ r.rows)
               [] node.k = "InCatalogue" ->
                    _visit_in_catalogue(orm_class, node, visited, depth + 1)

\* PredicateVisitor.visit_predicate (orm_sqlalchemy/__init__.py:96-118);
\* visited is self.visited_predicates. The class is @typechecked: a pred that
\* is no Predicate object (a string, numbered below 0) raises TypeError.
visit_predicate(orm_class, pred, visited, depth) ==
    IF pred < 0 THEN Res("TypeError", visited, {})
    ELSE IF depth > StackLimit THEN Res("StackOverflow", visited, {})
    ELSE IF pred \in visited THEN Res("PredicateRecursionError", visited, {})
    ELSE LET seen == visited \cup {pred}
             node == Arena[pred]
         IN  CASE node.k = "Comparison" ->
                    Res("none", seen, _visit_comparison(orm_class, node))
               [] node.k = "All" ->
                    LET r == VisitEach(orm_class, node.args, seen, depth + 1, <<>>)
                    IN  IF r.err # "none" THEN r
                        ELSE Res("none", r.visited,
                                 {i \in Table(orm_class) : \A n \in 1..Len(r.rows) : i \in r.rows[n]})
               [] node.k = "Any" ->
                    LET r == VisitEach(orm_class, node.args, seen, depth + 1, <<>>)
                    IN  IF r.err # "none" THEN r
                        ELSE Res("none", r.visited,
                                 {i \in Table(orm_class) : \E n \in 1..Len(r.rows) : i \in r.rows[n]})
               [] node.k = "Not" ->
                    LET r == visit_predicate(orm_class, node.args[1], seen, depth + 1)
                    IN  IF r.err # "none" THEN r
                        ELSE Res("none", r.visited, Table(orm_class) \ r.rows)
               [] node.k = "InCatalogue" ->
                    _visit_in_catalogue(orm_class, node, seen, depth + 1)

\* the ids of S in ascending order (the order of the rows of a SELECT)
RECURSIVE InOrder(_, _)
InOrder(S, n) ==
    IF n = 0 THEN <<>>
    ELSE IF n \in S THEN Append(InOrder(S, n - 1), n) ELSE InOrder(S, n - 1)

MaxId(orm_class) == IF orm_class = "Event" THEN MaxEvents ELSE MaxCats

\* A query: base['predicate'] (NoPred when absent), base['entity'] (0 when
\* absent) and base['removed'].
Base(predicate, entity, removed) == [predicate |-> predicate, entity |-> entity, removed |-> removed]

\* the rows related to base['entity'] through the association table
RelatedTo(orm_class, entity) ==
    IF orm_class = "Event" THEN {e \in Table("Event") : <<entity, e>> \in members}
    ELSE {c \in Table("Catalogue") : <<c, entity>> \in members}

\* a query that selects the rows of the predicate and the related rows apart
_create_query_concat(base, orm_class) ==
    LET f == IF base.predicate # NoPred
             THEN visit_predicate(orm_class, base.predicate, {}, 0)
             ELSE Res("none", {}, {})
        hasF == base.predicate # NoPred
        hasE == base.entity # 0
        flagged == {i \in Table(orm_class) : RowOf(orm_class, i).removed = base.removed}
        matching == InOrder({i \in flagged : i \in f.rows}, MaxId(orm_class))
        related == InOrder({i \in flagged : i \in RelatedTo(orm_class, base.entity)}, MaxId(orm_class))
    IN  IF f.err # "none" THEN [err |-> f.err, ids |-> <<>>]
        ELSE [err |-> "none",
              ids |-> IF hasF /\ hasE THEN matching \o related
                      ELSE IF hasF THEN matching
                      ELSE IF hasE THEN related
                      ELSE InOrder(flagged, MaxId(orm_class))]

\* Backend._create_query: the error raised, or the ids of the selected rows
_create_query(base, orm_class) ==
    LET f == IF base.predicate # NoPred
             THEN visit_predicate(orm_class, base.predicate, {}, 0)
             ELSE Res("none", {}, {})
        hasF == base.predicate # NoPred
        hasE == base.entity # 0
        flagged == {i \in Table(orm_class) : RowOf(orm_class, i).removed = base.removed}
        rows == IF hasF /\ hasE THEN {i \in flagged : i \in f.rows \/ i \in RelatedTo(orm_class, base.entity)}
                ELSE IF hasF THEN {i \in flagged : i \in f.rows}
                ELSE IF hasE THEN {i \in flagged : i \in RelatedTo(orm_class, base.entity)}
                ELSE flagged
    IN  IF f.err # "none" THEN [err |-> f.err, ids |-> <<>>]
        ELSE [err |-> "none", ids |-> InOrder(rows, MaxId(orm_class))]

\* ------------------------------------------------------- base.py: queries
\* a check that lets a stop before the start pass
EventFieldError_no_stop_check(d, key, value) ==
    CASE key = "uuid" -> ~UUID_parses(value)
      [] key = "start" -> value > d.stop
      [] key \in {"tags", "products"} -> StringListError(value)
      [] key = "rating" -> RatingError(value)
      [] OTHER -> FALSE

\* _Event.__setattr__ (base.py:191-212): does assigning key := value raise,
\* on a handle whose fields are d?
EventFieldError(d, key, value) ==
    CASE key = "uuid" -> ~UUID_parses(value)
      [] key = "start" -> value > d.stop
      [] key = "stop" -> value < d.start
      [] key \in {"tags", "products"} -> StringListError(value)
      [] key = "rating" -> RatingError(value)
      [] OTHER -> FALSE

\* _Catalogue.__setattr__ (base.py:260-272)
CatalogueFieldError(d, key, value) ==
    CASE key = "uuid" -> ~UUID_parses(value)
      [] key = "name" -> value = <<>>
      [] key = "tags" -> StringListError(value)
      [] OTHER -> FALSE

\* str(uuid4()) for the n-th object of a kind
uuid4(n) == UuidV("v4", 100 + n)

\* _Event.__init__ (base.py:151-175): the assignments in their order; start is
\* assigned before stop exists, so only stop is checked against it.
EventCtorError(a) ==
    \/ a.stop < a.start
    \/ StringListError(a.tags)
    \/ StringListError(a.products)
    \/ RatingError(a.rating)
    \/ (a.uuid # NoUuid /\ ~UUID_parses(a.uuid))
    \/ ~_verify_attribute_names(a.attrs)

\* _Catalogue.__init__ (base.py:221-243)
CatalogueCtorError(a) ==
    \/ a.name = <<>>
    \/ (a.uuid # NoUuid /\ ~UUID_parses(a.uuid))
    \/ StringListError(a.tags)
    \/ ~_verify_attribute_names(a.attrs)

\* what a query hands back for one row: the entity and a handle built from it
Fetched(orm_class, i, removed_items) ==
    [entity |-> i, _removed |-> removed_items, d |-> RowOf(orm_class, i).d]

\* __backend_to_event / get_catalogues build each handle with the constructor,
\* which validates the stored values again
RowCtorError(orm_class, i) ==
    LET d == RowOf(orm_class, i).d
    IN  IF orm_class = "Event" THEN EventCtorError(d) ELSE CatalogueCtorError(d)

FetchAll(orm_class, q, removed_items) ==
    IF q.err # "none" THEN [err |-> q.err, items |-> <<>>]
    ELSE IF \E n \in 1..Len(q.ids) : RowCtorError(orm_class, q.ids[n])
    THEN [err |-> "ValidationError", items |-> <<>>]
    ELSE [err |-> "none",
          items |-> [n \in 1..Len(q.ids) |-> Fetched(orm_class, q.ids[n], removed_items)]]

\* Backend.get_events / Backend.get_catalogues
\* (orm_sqlalchemy/__init__.py:251-281): the list of dicts of the selected rows
Backend_get(orm_class, base) ==
    LET q == _create_query(base, orm_class)
    IN  [err |-> q.err,
         items |-> [n \in 1..Len(q.ids) |-> Fetched(orm_class, q.ids[n], base.removed)]]

\* get_events(base, removed_items) for base None (NoPred) or a Predicate
_get_events_from_predicate_or_none(base, removed_items) ==
    FetchAll("Event", _create_query(Base(base, 0, removed_items), "Event"), removed_items)

\* ev['is_assigned'] of a row of Backend.get_events: whether the event has a
\* row in event_in_catalogue for the catalogue the query is based on. A query
\* that is not based on a catalogue entity assigns nothing.
is_assigned(entity, i) == entity # 0 /\ <<entity, i>> \in members

EventQueryInformation_fixed(assigned) == [assigned |-> TRUE]

\* EventQueryInformation (base.py:531-533)
EventQueryInformation(assigned) == [assigned |-> assigned]

_get_events_from_catalogue_swapped(base, removed_items, assigned_only, filtered_only) ==
    IF ~has_backend_entity(catH[base])
    THEN [err |-> "InvalidHandle", items |-> <<>>, query_info |-> <<>>]
    ELSE LET predicate == IF filtered_only THEN NoPred ELSE catH[base].d.predicate
             entity == IF assigned_only THEN 0 ELSE base
             r == FetchAll("Event", _create_query(Base(predicate, entity, removed_items), "Event"),
                           removed_items)
         IN  [err |-> r.err,
              items |-> r.items,
              query_info |-> [n \in 1..Len(r.items) |->
                                EventQueryInformation(is_assigned(entity, r.items[n].entity))]]

\* get_events(base, removed_items, assigned_only, filtered_only) for a
\* catalogue handle base (base.py:536-552): the events and, at the same
\* positions, their query information
_get_events_from_catalogue(base, removed_items, assigned_only, filtered_only) ==
    IF ~has_backend_entity(catH[base])
    THEN [err |-> "InvalidHandle", items |-> <<>>, query_info |-> <<>>]
    ELSE LET predicate == IF assigned_only THEN NoPred ELSE catH[base].d.predicate
             entity == IF filtered_only THEN 0 ELSE base
             r == FetchAll("Event", _create_query(Base(predicate, entity, removed_items), "Event"),
                           removed_items)
         IN  [err |-> r.err,
              items |-> r.items,
              query_info |-> [n \in 1..Len(r.items) |->
                                EventQueryInformation(is_assigned(entity, r.items[n].entity))]]

\* get_catalogues(base, removed_items) for base None or a Predicate
get_catalogues(base, removed_items) ==
    FetchAll("Catalogue", _create_query(Base(base, 0, removed_items), "Catalogue"), removed_items)

\* get_catalogues(base, removed_items) for an event handle base
get_catalogues_of_event(base, removed_items) ==
    IF ~has_backend_entity(evH[base]) THEN [err |-> "InvalidHandle", items |-> <<>>]
    ELSE FetchAll("Catalogue", _create_query(Base(NoPred, base, removed_items), "Catalogue"),
                  removed_items)

\* the entities of a list of fetched items
EntitySet(items) == {items[n].entity : n \in 1..Len(items)}

\* variable_attributes() (base.py:86-93): the entries of the handle's __dict__
\* that are no fixed key and match _valid_key
variable_attributes(d) == [k \in {x \in DOMAIN d.attrs : _valid_key(x)} |-> d.attrs[k]]

\* dump() (base.py:79-84): the fixed fields and the variable attributes
dump(d) == [d EXCEPT !.attrs = variable_attributes(d)]

\* What the queries tell about storage: every entity with its fields and
\* attributes, the removed ones apart, and the explicit members of each
\* catalogue.
StorageView ==
    [events |-> Backend_get("Event", Base(NoPred, 0, FALSE)).items,
     removed_events |-> Backend_get("Event", Base(NoPred, 0, TRUE)).items,
     catalogues |-> Backend_get("Catalogue", Base(NoPred, 0, FALSE)).items,
     removed_catalogues |-> Backend_get("Catalogue", Base(NoPred, 0, TRUE)).items,
     assigned |-> [c \in CatIds |->
                    IF c \in Table("Catalogue")
                    THEN _create_query(Base(NoPred, c, FALSE), "Event").ids
                         \o _create_query(Base(NoPred, c, TRUE), "Event").ids
                    ELSE <<>>]]

\* ------------------------------------------------------------------ state
Call(op, err, id) == [op |-> op, err |-> err, id |-> id]

\* a session that begins a transaction only when an object is added to it
autobegin_on_add(op, err) ==
    IF op \in {"save", "discard"} THEN FALSE
    ELSE IF op \in {"create_event", "create_catalogue"} /\ err = "none" THEN TRUE
    ELSE in_transaction

\* session.in_transaction() after the call op that ended with err
\* (orm_sqlalchemy/__init__.py:283-290). commit() and rollback() end the
\* transaction; the session begins one as soon as it is used: an object is
\* added, deleted or modified, a collection is loaded or changed, a query is
\* run. A call that raises before it reaches the session (a refused value, a
\* handle without _backend_entity, a predicate that does not compile) and a
\* read of a handle's own field leave the session as it is.
autobegin(op, err) ==
    IF op \in {"save", "discard"} THEN FALSE
    ELSE IF op \in {"getattr", "getattr_catalogue"} THEN in_transaction
    ELSE IF err \in {"none", "AlreadyInCatalogue", "NotInCatalogue", "KeyError", "ValueError",
                     "IndexError"} THEN TRUE
    ELSE IF op = "import_json" THEN TRUE
    ELSE IF op = "create_catalogue" /\ err # "ValidationError" THEN TRUE
    ELSE in_transaction

\* the call op ended without a call of the backend
Kept(op, err, id) ==
    /\ last' = Call(op, err, id)
    /\ UNCHANGED in_transaction

\* the call op returned or raised err
Returned(op, err, id) ==
    /\ last' = Call(op, err, id)
    /\ in_transaction' = autobegin(op, err)

\* no bundle was exported yet
NoBlob == [catalogues |-> <<>>, events |-> <<>>, stamp |-> 0, view |-> <<>>]

Init ==
    /\ ev = [i \in EvIds |-> Obj("free", FALSE, BlankEvent)]
    /\ cat = [c \in CatIds |-> Obj("free", FALSE, BlankCatalogue)]
    /\ members = {}
    /\ disk = [ev |-> [i \in EvIds |-> Row(FALSE, FALSE, BlankEvent)],
               cat |-> [c \in CatIds |-> Row(FALSE, FALSE, BlankCatalogue)],
               members |-> {}]
    /\ evH = [i \in EvIds |-> Handle("none", FALSE, BlankEvent)]
    /\ catH = [c \in CatIds |-> Handle("none", FALSE, BlankCatalogue)]
    /\ last = Call("init", "none", 0)
    /\ saved = StorageView
    /\ ops = 0
    /\ blob = NoBlob
    /\ in_transaction = FALSE

\* a call is made: the budget of calls is not used up
Step == ops < MaxOps /\ ops' = ops + 1 /\ UNCHANGED blob

\* the handle can be used by the actions: it was constructed, and when it still
\* has its _backend_entity that object is in the session
UsableEvent(i) == evH[i].st = "invalid" \/ (evH[i].st = "valid" /\ ev[i].st = "live")
UsableCatalogue(c) == catH[c].st = "invalid" \/ (catH[c].st = "valid" /\ cat[c].st = "live")

FreeIds(objs) == {i \in DOMAIN objs : objs[i].st = "free"}
NextId(objs) == CHOOSE i \in FreeIds(objs) : \A j \in FreeIds(objs) : i <= j

\* Backend.add_event (orm_sqlalchemy/__init__.py:180-198): the new orm.Event,
\* added to the session and flushed
add_event(d) == Obj("live", FALSE, d)

\* Backend.add_catalogue (orm_sqlalchemy/__init__.py:160-178)
add_catalogue(d) == Obj("live", FALSE, d)

\* create_event(start, stop, author, uuid, tags, products, rating, **attrs)
create_event(a) ==
    /\ Step
    /\ FreeIds(ev) # {}
    /\ LET i == NextId(ev)
           d == EventData(IF a.uuid = NoUuid THEN uuid4(i) ELSE a.uuid, a.start, a.stop,
                          a.author, a.tags, a.products, a.rating, a.attrs)
       IN  IF EventCtorError(a)
           THEN /\ Returned("create_event", "ValidationError", 0)
                /\ UNCHANGED <<ev, evH>>
           ELSE /\ ev' = [ev EXCEPT ![i] = add_event(d)]
                /\ evH' = [evH EXCEPT ![i] = Handle("valid", FALSE, d)]
                /\ Returned("create_event", "none", i)
    /\ UNCHANGED <<cat, members, disk, catH, saved>>

\* the write is lost
update_attribute_lost(obj, key, value) == obj

\* Backend.update_field / update_attribute / delete_attribute
\* (orm_sqlalchemy/__init__.py:212-223) on an ORM object
update_field(obj, key, value) == [obj EXCEPT !.d[key] = value]
update_attribute(obj, key, value) ==
    [obj EXCEPT !.d.attrs = [k \in DOMAIN obj.d.attrs \cup {key} |->
                                IF k = key THEN value ELSE obj.d.attrs[k]]]
delete_attribute(obj, key) ==
    [obj EXCEPT !.d.attrs = [k \in DOMAIN obj.d.attrs \ {key} |-> obj.d.attrs[k]]]

\* handle.key = value for a fixed field of an event
\* (_Event.__setattr__, then _BackendBasedEntity.__setattr__, base.py:105-112)
set_event_field(i, key, value) ==
    /\ Step
    /\ UsableEvent(i)
    /\ IF EventFieldError(evH[i].d, key, value)
       THEN /\ Returned("setattr", "ValidationError", i)
            /\ UNCHANGED <<ev, evH>>
       ELSE /\ evH' = [evH EXCEPT ![i].d[key] = value]
            /\ IF has_backend_entity(evH[i])
               THEN /\ ev' = [ev EXCEPT ![i] = update_field(ev[i], key, value)]
                    /\ Returned("setattr", "none", i)
               ELSE /\ Returned("setattr", "InvalidHandle", i)
                    /\ UNCHANGED ev
    /\ UNCHANGED <<cat, members, disk, catH, saved>>

\* handle.key = value for a name that is no fixed field
set_event_attribute(i, key, value) ==
    /\ Step
    /\ UsableEvent(i)
    /\ evH' = [evH EXCEPT ![i].d.attrs = [k \in DOMAIN evH[i].d.attrs \cup {key} |->
                                            IF k = key THEN value ELSE evH[i].d.attrs[k]]]
    /\ IF ~_valid_key(key)
       THEN /\ Kept("setattr_attribute", "none", i)
            /\ UNCHANGED ev
       ELSE IF has_backend_entity(evH[i])
       THEN /\ ev' = [ev EXCEPT ![i] = update_attribute(ev[i], key, value)]
            /\ Returned("setattr_attribute", "none", i)
       ELSE /\ Returned("setattr_attribute", "InvalidHandle", i)
            /\ UNCHANGED ev
    /\ UNCHANGED <<cat, members, disk, catH, saved>>

\* del handle.key for a name that is no fixed field (base.py:114-121)
del_event_attribute(i, key) ==
    /\ Step
    /\ UsableEvent(i)
    /\ IF key \notin DOMAIN evH[i].d.attrs
       THEN /\ Returned("delattr", "AttributeError", i)
            /\ UNCHANGED <<ev, evH>>
       ELSE /\ evH' = [evH EXCEPT ![i].d.attrs = [k \in DOMAIN evH[i].d.attrs \ {key} |->
                                                    evH[i].d.attrs[k]]]
            /\ IF ~_valid_key(key)
               THEN /\ Kept("delattr", "none", i)
                    /\ UNCHANGED ev
               ELSE IF ~has_backend_entity(evH[i])
               THEN /\ Returned("delattr", "InvalidHandle", i)
                    /\ UNCHANGED ev
               ELSE IF key \notin DOMAIN ev[i].d.attrs
               THEN /\ Returned("delattr", "KeyError", i)
                    /\ UNCHANGED ev
               ELSE /\ ev' = [ev EXCEPT ![i] = delete_attribute(ev[i], key)]
                    /\ Returned("delattr", "none", i)
    /\ UNCHANGED <<cat, members, disk, catH, saved>>

\* a permanent removal that only sets the flag
remove_flag_only(obj, permanently) == [obj EXCEPT !.removed = TRUE]

\* Backend.remove (orm_sqlalchemy/__init__.py:292-296): session.delete(entity)
\* or entity.removed = True
remove(obj, permanently) ==
    IF permanently THEN [obj EXCEPT !.st = "deleted"] ELSE [obj EXCEPT !.removed = TRUE]

\* a restore that leaves the flag set
restore_lost(obj) == obj

\* Backend.restore (orm_sqlalchemy/__init__.py:298-300)
restore(obj) == [obj EXCEPT !.removed = FALSE]

\* the rows of event_in_catalogue that go with a deleted object
RowsOfEvent(i) == {m \in members : m[2] = i}
RowsOfCatalogue(c) == {m \in members : m[1] = c}

\* event.remove(permanently) (base.py:133-138)
remove_event(i, permanently) ==
    /\ Step
    /\ UsableEvent(i)
    /\ IF has_backend_entity(evH[i])
       THEN /\ ev' = [ev EXCEPT ![i] = remove(ev[i], permanently)]
            /\ evH' = [evH EXCEPT ![i]._removed = TRUE,
                                  ![i].st = IF permanently THEN "invalid" ELSE "valid"]
            /\ members' = IF permanently THEN members \ RowsOfEvent(i) ELSE members
            /\ Returned(IF permanently THEN "remove_permanently" ELSE "remove", "none", i)
       ELSE /\ evH' = [evH EXCEPT ![i]._removed = TRUE]
            /\ Returned(IF permanently THEN "remove_permanently" ELSE "remove", "InvalidHandle", i)
            /\ UNCHANGED <<ev, members>>
    /\ UNCHANGED <<cat, disk, catH, saved>>

\* event.restore() (base.py:140-142)
restore_event(i) ==
    /\ Step
    /\ UsableEvent(i)
    /\ evH' = [evH EXCEPT ![i]._removed = FALSE]
    /\ IF has_backend_entity(evH[i])
       THEN /\ ev' = [ev EXCEPT ![i] = restore(ev[i])]
            /\ Returned("restore", "none", i)
       ELSE /\ Returned("restore", "InvalidHandle", i)
            /\ UNCHANGED ev
    /\ UNCHANGED <<cat, members, disk, catH, saved>>

\* a removal that unlinks the members of a catalogue put in the trash as well
remove_catalogue_unlinking(c, permanently) ==
    /\ Step
    /\ UsableCatalogue(c)
    /\ IF has_backend_entity(catH[c])
       THEN /\ cat' = [cat EXCEPT ![c] = remove(cat[c], permanently)]
            /\ catH' = [catH EXCEPT ![c]._removed = TRUE,
                                    ![c].st = IF permanently THEN "invalid" ELSE "valid"]
            /\ members' = members \ RowsOfCatalogue(c)
            /\ Returned(IF permanently THEN "remove_catalogue_permanently" ELSE "remove_catalogue",
                            "none", c)
       ELSE /\ catH' = [catH EXCEPT ![c]._removed = TRUE]
            /\ Returned(IF permanently THEN "remove_catalogue_permanently" ELSE "remove_catalogue",
                            "InvalidHandle", c)
            /\ UNCHANGED <<cat, members>>
    /\ UNCHANGED <<ev, disk, evH, saved>>

\* catalogue.remove(permanently) (base.py:133-138)
remove_catalogue(c, permanently) ==
    /\ Step
    /\ UsableCatalogue(c)
    /\ IF has_backend_entity(catH[c])
       THEN /\ cat' = [cat EXCEPT ![c] = remove(cat[c], permanently)]
            /\ catH' = [catH EXCEPT ![c]._removed = TRUE,
                                    ![c].st = IF permanently THEN "invalid" ELSE "valid"]
            /\ members' = IF permanently THEN members \ RowsOfCatalogue(c) ELSE members
            /\ Returned(IF permanently THEN "remove_catalogue_permanently" ELSE "remove_catalogue",
                            "none", c)
       ELSE /\ catH' = [catH EXCEPT ![c]._removed = TRUE]
            /\ Returned(IF permanently THEN "remove_catalogue_permanently" ELSE "remove_catalogue",
                            "InvalidHandle", c)
            /\ UNCHANGED <<cat, members>>
    /\ UNCHANGED <<ev, disk, evH, saved>>

\* catalogue.restore() (base.py:140-142)
restore_catalogue(c) ==
    /\ Step
    /\ UsableCatalogue(c)
    /\ catH' = [catH EXCEPT ![c]._removed = FALSE]
    /\ IF has_backend_entity(catH[c])
       THEN /\ cat' = [cat EXCEPT ![c] = restore(cat[c])]
            /\ Returned("restore_catalogue", "none", c)
       ELSE /\ Returned("restore_catalogue", "InvalidHandle", c)
            /\ UNCHANGED cat
    /\ UNCHANGED <<ev, members, disk, evH, saved>>

\* Backend.commit (orm_sqlalchemy/__init__.py:283-284): the rows of the
\* transaction become the committed rows; a deleted object leaves the session
commit ==
    [ev |-> [i \in EvIds |-> IF ev[i].st = "deleted" THEN [ev[i] EXCEPT !.st = "gone"] ELSE ev[i]],
     cat |-> [c \in CatIds |-> IF cat[c].st = "deleted" THEN [cat[c] EXCEPT !.st = "gone"] ELSE cat[c]],
     members |-> members,
     disk |-> [ev |-> [i \in EvIds |-> Row(ev[i].st = "live", ev[i].removed, ev[i].d)],
               cat |-> [c \in CatIds |-> Row(cat[c].st = "live", cat[c].removed, cat[c].d)],
               members |-> members]]

\* a rollback that leaves the inserted objects in the session
RolledBack_keeps_inserted(obj, row) ==
    IF row.present THEN Obj("live", row.removed, row.d) ELSE obj

\* what Session.rollback() makes of one ORM object: an object with a committed
\* row is persistent again with the committed values (a deleted one is
\* restored, a changed one is expired and reloaded); an object inserted in the
\* rolled back transaction is expunged
RolledBack(obj, row) ==
    IF row.present THEN Obj("live", row.removed, row.d)
    ELSE IF obj.st = "free" THEN obj
    ELSE [obj EXCEPT !.st = "gone"]

\* Backend.rollback (orm_sqlalchemy/__init__.py:286-287)
rollback ==
    [ev |-> [i \in EvIds |-> RolledBack(ev[i], disk.ev[i])],
     cat |-> [c \in CatIds |-> RolledBack(cat[c], disk.cat[c])],
     members |-> disk.members,
     disk |-> disk]

\* save() (base.py:590-591)
save ==
    /\ Step
    /\ ev' = commit.ev
    /\ cat' = commit.cat
    /\ members' = commit.members
    /\ disk' = commit.disk
    /\ UNCHANGED <<evH, catH>>
    /\ saved' = StorageView'
    /\ Returned("save", "none", 0)

\* discard() (base.py:594-595)
discard ==
    /\ Step
    /\ ev' = rollback.ev
    /\ cat' = rollback.cat
    /\ members' = rollback.members
    /\ disk' = rollback.disk
    /\ Returned("discard", "none", 0)
    /\ UNCHANGED <<evH, catH, saved>>

\* the catalogues a predicate object names in its InCatalogue nodes
RECURSIVE CataloguesOf(_)
CataloguesOf(pred) ==
    LET node == Arena[pred]
    IN  (IF node.k = "InCatalogue" /\ node.cat # 0 THEN {node.cat} ELSE {})
        \cup UNION {CataloguesOf(node.args[n]) : n \in 1..Len(node.args)}

\* a client can only build InCatalogue(c) from a catalogue handle it holds
Constructible(pred) ==
    IF pred = NoPred THEN TRUE ELSE \A c \in CataloguesOf(pred) : catH[c].st # "none"

RECURSIVE add_events_to_catalogue_unchecked(_, _, _)
add_events_to_catalogue_unchecked(c, events, rows) ==
    IF events = <<>> THEN [err |-> "none", rows |-> rows]
    ELSE add_events_to_catalogue_unchecked(c, Tail(events), rows \cup {<<c, Head(events)>>})

\* Backend.add_events_to_catalogue (orm_sqlalchemy/__init__.py:200-205): the
\* loop over the events; the appends made before a raise stay in
\* catalogue.events and reach the table with the next flush
RECURSIVE add_events_to_catalogue(_, _, _)
add_events_to_catalogue(c, events, rows) ==
    IF events = <<>> THEN [err |-> "none", rows |-> rows]
    ELSE IF <<c, Head(events)>> \in rows THEN [err |-> "AlreadyInCatalogue", rows |-> rows]
    ELSE add_events_to_catalogue(c, Tail(events), rows \cup {<<c, Head(events)>>})

\* Backend.remove_events_from_catalogue (orm_sqlalchemy/__init__.py:207-210):
\* list.remove raises for an event that is not in catalogue.events
RECURSIVE remove_events_from_catalogue(_, _, _)
remove_events_from_catalogue(c, events, rows) ==
    IF events = <<>> THEN [err |-> "none", rows |-> rows]
    ELSE IF <<c, Head(events)>> \notin rows THEN [err |-> "NotInCatalogue", rows |-> rows]
    ELSE remove_events_from_catalogue(c, Tail(events), rows \ {<<c, Head(events)>>})

\* each _backend_entity is read only when its event is reached
SessionMembership_lazy(c, events, adding) ==
    LET RECURSIVE Walk(_, _)
        Walk(rest, rows) ==
            IF rest = <<>> THEN [err |-> "none", rows |-> rows]
            ELSE IF ~has_backend_entity(evH[Head(rest)]) THEN [err |-> "InvalidHandle", rows |-> rows]
            ELSE IF adding /\ <<c, Head(rest)>> \in rows THEN [err |-> "AlreadyInCatalogue", rows |-> rows]
            ELSE IF ~adding /\ <<c, Head(rest)>> \notin rows THEN [err |-> "NotInCatalogue", rows |-> rows]
            ELSE Walk(Tail(rest), IF adding THEN rows \cup {<<c, Head(rest)>>}
                                  ELSE rows \ {<<c, Head(rest)>>})
    IN  IF ~has_backend_entity(catH[c]) THEN [err |-> "InvalidHandle", rows |-> members]
        ELSE Walk(events, members)

\* Session.add_events_to_catalogue / remove_events_from_catalogue
\* (base.py:59-67): every _backend_entity is read before the backend is called
SessionMembership(c, events, adding) ==
    IF ~has_backend_entity(catH[c]) \/ \E n \in 1..Len(events) : ~has_backend_entity(evH[events[n]])
    THEN [err |-> "InvalidHandle", rows |-> members]
    ELSE IF adding THEN add_events_to_catalogue(c, events, members)
    ELSE remove_events_from_catalogue(c, events, members)

\* add_events_to_catalogue(catalogue, events) (base.py:382-399)
add_events(c, events) ==
    /\ Step
    /\ UsableCatalogue(c)
    /\ \A n \in 1..Len(events) : UsableEvent(events[n])
    /\ LET r == SessionMembership(c, events, TRUE)
       IN  /\ members' = r.rows
           /\ Returned("add_events_to_catalogue", r.err, c)
    /\ UNCHANGED <<ev, cat, disk, evH, catH, saved>>

\* remove_events_from_catalogue(catalogue, events) (base.py:402-421)
remove_events(c, events) ==
    /\ Step
    /\ UsableCatalogue(c)
    /\ \A n \in 1..Len(events) : UsableEvent(events[n])
    /\ LET r == SessionMembership(c, events, FALSE)
       IN  /\ members' = r.rows
           /\ Returned("remove_events_from_catalogue", r.err, c)
    /\ UNCHANGED <<ev, cat, disk, evH, catH, saved>>

\* create_catalogue(name, author, uuid, tags, predicate, events, **attrs)
\* (base.py:332-379)
create_catalogue(a, events) ==
    /\ Step
    /\ FreeIds(cat) # {}
    /\ Constructible(a.predicate)
    /\ \A n \in 1..Len(events) : UsableEvent(events[n])
    /\ LET c == NextId(cat)
           d == CatalogueData(IF a.uuid = NoUuid THEN uuid4(c) ELSE a.uuid, a.name, a.author,
                              a.tags, a.predicate, a.attrs)
           r == IF \E n \in 1..Len(events) : ~has_backend_entity(evH[events[n]])
                THEN [err |-> "InvalidHandle", rows |-> members]
                ELSE add_events_to_catalogue(c, events, members)
       IN  IF CatalogueCtorError(a)
           THEN /\ Returned("create_catalogue", "ValidationError", 0)
                /\ UNCHANGED <<cat, catH, members>>
           ELSE /\ cat' = [cat EXCEPT ![c] = add_catalogue(d)]
                /\ members' = r.rows
                /\ catH' = IF r.err = "none"
                           THEN [catH EXCEPT ![c] = Handle("valid", FALSE, d)]
                           ELSE catH
                /\ Returned("create_catalogue", r.err, c)
    /\ UNCHANGED <<ev, disk, evH, saved>>

\* handle.key = value for a fixed field of a catalogue
set_catalogue_field(c, key, value) ==
    /\ Step
    /\ UsableCatalogue(c)
    /\ key = "predicate" => Constructible(value)
    /\ IF CatalogueFieldError(catH[c].d, key, value)
       THEN /\ Returned("setattr_catalogue", "ValidationError", c)
            /\ UNCHANGED <<cat, catH>>
       ELSE /\ catH' = [catH EXCEPT ![c].d[key] = value]
            /\ IF has_backend_entity(catH[c])
               THEN /\ cat' = [cat EXCEPT ![c] = update_field(cat[c], key, value)]
                    /\ Returned("setattr_catalogue", "none", c)
               ELSE /\ Returned("setattr_catalogue", "InvalidHandle", c)
                    /\ UNCHANGED cat
    /\ UNCHANGED <<ev, members, disk, evH, saved>>

\* handle.key = value for a name that is no fixed field of a catalogue
set_catalogue_attribute(c, key, value) ==
    /\ Step
    /\ UsableCatalogue(c)
    /\ catH' = [catH EXCEPT ![c].d.attrs = [k \in DOMAIN catH[c].d.attrs \cup {key} |->
                                              IF k = key THEN value ELSE catH[c].d.attrs[k]]]
    /\ IF ~_valid_key(key)
       THEN /\ Kept("setattr_catalogue_attribute", "none", c)
            /\ UNCHANGED cat
       ELSE IF has_backend_entity(catH[c])
       THEN /\ cat' = [cat EXCEPT ![c] = update_attribute(cat[c], key, value)]
            /\ Returned("setattr_catalogue_attribute", "none", c)
       ELSE /\ Returned("setattr_catalogue_attribute", "InvalidHandle", c)
            /\ UNCHANGED cat
    /\ UNCHANGED <<ev, members, disk, evH, saved>>

\* del handle.key for a name that is no fixed field of a catalogue
del_catalogue_attribute(c, key) ==
    /\ Step
    /\ UsableCatalogue(c)
    /\ IF key \notin DOMAIN catH[c].d.attrs
       THEN /\ Returned("delattr_catalogue", "AttributeError", c)
            /\ UNCHANGED <<cat, catH>>
       ELSE /\ catH' = [catH EXCEPT ![c].d.attrs = [k \in DOMAIN catH[c].d.attrs \ {key} |->
                                                      catH[c].d.attrs[k]]]
            /\ IF ~_valid_key(key)
               THEN /\ Kept("delattr_catalogue", "none", c)
                    /\ UNCHANGED cat
               ELSE IF ~has_backend_entity(catH[c])
               THEN /\ Returned("delattr_catalogue", "InvalidHandle", c)
                    /\ UNCHANGED cat
               ELSE IF key \notin DOMAIN cat[c].d.attrs
               THEN /\ Returned("delattr_catalogue", "KeyError", c)
                    /\ UNCHANGED cat
               ELSE /\ cat' = [cat EXCEPT ![c] = delete_attribute(cat[c], key)]
                    /\ Returned("delattr_catalogue", "none", c)
    /\ UNCHANGED <<ev, members, disk, evH, saved>>

\* ---------------------------------------------------------- query calls
\* A query changes nothing; the model records the call and how it ended.
Asked(op, err, id) ==
    /\ Returned(op, err, id)
    /\ UNCHANGED <<ev, cat, members, disk, evH, catH, saved, ops, blob>>

\* get_events(predicate, removed_items), predicate possibly None
get_events(predicate, removed_items) ==
    /\ Constructible(predicate)
    /\ Asked("get_events", _get_events_from_predicate_or_none(predicate, removed_items).err, predicate)

\* get_events(catalogue, removed_items, assigned_only=, filtered_only=)
get_events_of_catalogue(c, removed_items, assigned_only, filtered_only) ==
    /\ UsableCatalogue(c)
    /\ Asked(IF assigned_only THEN "get_events_assigned_only"
             ELSE IF filtered_only THEN "get_events_filtered_only"
             ELSE "get_events_of_catalogue",
             _get_events_from_catalogue(c, removed_items, assigned_only, filtered_only).err, c)

\* handle.key read for a fixed field: an ordinary attribute of the handle,
\* found without __getattr__ (base.py:98-103)
read_field(kind, i) ==
    /\ IF kind = "Event" THEN evH[i].st # "none" ELSE catH[i].st # "none"
    /\ Asked(IF kind = "Event" THEN "getattr" ELSE "getattr_catalogue", "none", i)

\* ------------------------------------------------------------ the inputs
P == <<"P">>
Q == <<"Q">>
EventArgs(start, stop, author) ==
    [start |-> start, stop |-> stop, author |-> author, uuid |-> NoUuid,
     tags |-> <<>>, products |-> <<>>, rating |-> NoneV, attrs |-> NoAttrs]
CatalogueArgs(name, predicate) ==
    [name |-> name, author |-> P, uuid |-> NoUuid, tags |-> <<>>,
     predicate |-> predicate, attrs |-> NoAttrs]

\* lists of one or two event handles
EventLists == {<<i>> : i \in EvIds} \cup {<<i, j>> : i, j \in EvIds}

AttrKey == <<"a">>

TxEvents == {EventArgs(1, 1, P)}
TxCatalogues == {CatalogueArgs(<<"a">>, NoPred)}

\* ------------------------------------------------- the transaction model
\* Every kind of write, save() and discard(), on handles that may outlive a
\* discard() or a permanent removal.
Next ==
    \/ \E a \in TxEvents : create_event(a)
    \/ \E a \in TxCatalogues, events \in {<<>>} \cup {<<i>> : i \in EvIds} : create_catalogue(a, events)
    \/ \E i \in EvIds, key \in {"start", "stop"}, value \in Times : set_event_field(i, key, value)
    \/ \E i \in EvIds : set_event_attribute(i, AttrKey, IntV(1))
    \/ \E i \in EvIds : del_event_attribute(i, AttrKey)
    \/ \E c \in CatIds : set_catalogue_field(c, "name", <<"b">>)
    \/ \E c \in CatIds : set_catalogue_attribute(c, AttrKey, IntV(1))
    \/ \E c \in CatIds : del_catalogue_attribute(c, AttrKey)
    \/ \E i \in EvIds, permanently \in BOOLEAN : remove_event(i, permanently)
    \/ \E i \in EvIds : restore_event(i)
    \/ \E c \in CatIds, permanently \in BOOLEAN : remove_catalogue(c, permanently)
    \/ \E c \in CatIds : restore_catalogue(c)
    \/ \E c \in CatIds, events \in EventLists : add_events(c, events)
    \/ \E c \in CatIds, events \in EventLists : remove_events(c, events)
    \/ save
    \/ discard
    \/ \E c \in CatIds : get_events_of_catalogue(c, FALSE, FALSE, FALSE)
    \/ \E i \in EvIds : read_field("Event", i)
    \/ \E c \in CatIds : read_field("Catalogue", c)

Spec == Init /\ [][Next]_vars

\* ------------------------------------------------------------ properties
\* the fields and attributes a query returns for entity i, with or without
\* removed_items: a set with one element, or empty when no query returns i
FetchedData(orm_class, i) ==
    LET all == Backend_get(orm_class, Base(NoPred, 0, FALSE)).items
               \o Backend_get(orm_class, Base(NoPred, 0, TRUE)).items
    IN  {all[n].d : n \in {m \in 1..Len(all) : all[m].entity = i}}

HandleOf(orm_class, i) == IF orm_class = "Event" THEN evH[i] ELSE catH[i]
IdsOf(orm_class) == IF orm_class = "Event" THEN EvIds ELSE CatIds
Classes == {"Event", "Catalogue"}

\* some query, with or without removed_items, returns entity i
Visible(orm_class, i) == FetchedData(orm_class, i) # {}

\* the handle shows the fields and attributes the queries return for its entity
InSync(orm_class, i) == FetchedData(orm_class, i) = {dump(HandleOf(orm_class, i).d)}

EventWrites == {"setattr", "setattr_attribute", "delattr"}
CatalogueWrites == {"setattr_catalogue", "setattr_catalogue_attribute", "delattr_catalogue"}
ClassOfCall(op) ==
    IF op \in EventWrites \cup {"getattr", "remove", "remove_permanently", "restore"}
    THEN "Event" ELSE "Catalogue"

\* C1: after discard() the queries return what they returned at the last
\* save() (at the start, when there was none): entities, fields, attributes,
\* removed flags and the explicit members of every catalogue.  A discard()
\* right after a save() is the case where nothing was written in between.
C1_DiscardRestoresLastSave == last.op = "discard" => StorageView = saved

\* a discard() that undid a write to an entity committed before
C1_Witness ==
    /\ last.op = "discard"
    /\ Len(saved.events) > 0
    /\ \E i \in EvIds : evH[i].st = "valid" /\ ev[i].st = "live" /\ evH[i].d # ev[i].d

C6_FailedCallChangesNothing ==
    [][ /\ \A c \in CatIds, events \in EventLists :
            (add_events(c, events) /\ \E n \in 1..Len(events) : evH[events[n]].st = "invalid")
            => (last'.err = "InvalidHandle" /\ StorageView' = StorageView)
        /\ \A c \in CatIds :
            (get_events_of_catalogue(c, FALSE, FALSE, FALSE) /\ catH[c].st = "invalid")
            => (last'.err = "InvalidHandle" /\ StorageView' = StorageView)
      ]_vars

\* the call was refused for an event handle, the catalogue being valid and
\* holding another event
C6_Witness ==
    /\ last.op = "add_events_to_catalogue" /\ last.err = "InvalidHandle"
    /\ catH[last.id].st = "valid"
    /\ \E i \in EvIds : evH[i].st = "invalid"
    /\ \E j \in EvIds : evH[j].st = "valid" /\ ev[j].st = "live"

\* C7 as stated: an entity on which remove(permanently=True) was called is
\* returned by no later query, whatever was called since.
C7_Original ==
    \A orm_class \in Classes : \A i \in IdsOf(orm_class) :
        HandleOf(orm_class, i).st = "invalid" => ~Visible(orm_class, i)

\* the entities the queries returned at the last save()
SavedEntities(orm_class) ==
    IF orm_class = "Event" THEN EntitySet(saved.events) \cup EntitySet(saved.removed_events)
    ELSE EntitySet(saved.catalogues) \cup EntitySet(saved.removed_catalogues)

\* C7 amended: after remove(permanently=True) no query returns the entity, and
\* neither restore() nor save() nor any other call but discard() brings it
\* back; discard() brings back only an entity that the last save() had stored,
\* so that after a save() the removal is final.
C7_HardDeleteFinalOnceSaved ==
    [][ \A orm_class \in Classes : \A i \in IdsOf(orm_class) :
            /\ (last'.op \in {"remove_permanently", "remove_catalogue_permanently"}
                    /\ last'.err = "none" /\ ClassOfCall(last'.op) = orm_class
                    /\ last'.id = i /\ ops' = ops + 1)
                => ~Visible(orm_class, i)'
            /\ (HandleOf(orm_class, i).st = "invalid" /\ ~Visible(orm_class, i) /\ last'.op # "discard")
                => ~Visible(orm_class, i)'
            /\ (HandleOf(orm_class, i)'.st = "invalid" /\ i \notin SavedEntities(orm_class)')
                => ~Visible(orm_class, i)'
      ]_vars

\* a permanently removed, saved entity, and a restore() tried on it since
C7_Witness ==
    /\ last.op = "restore" /\ last.err = "InvalidHandle"
    /\ evH[last.id].st = "invalid"
    /\ disk.ev[last.id].present = FALSE
    /\ ev[last.id].st = "gone"


\* ------------------------------------------------------ the query model
\* A store that holds MaxEvents events, of the authors P and Q in turn, and
\* MaxCats static catalogues, all saved; the catalogues are then given
\* predicates and members, entities are removed and restored, and every kind
\* of query is made.
InitQuery ==
    LET e(i) == EventData(uuid4(i), 1, 1, IF i % 2 = 1 THEN P ELSE Q, <<>>, <<>>, NoneV, NoAttrs)
        k(c) == CatalogueData(uuid4(c), <<"a">>, P, <<>>, NoPred, NoAttrs)
    IN  /\ ev = [i \in EvIds |-> add_event(e(i))]
        /\ cat = [c \in CatIds |-> add_catalogue(k(c))]
        /\ members = {}
        /\ disk = [ev |-> [i \in EvIds |-> Row(TRUE, FALSE, e(i))],
                   cat |-> [c \in CatIds |-> Row(TRUE, FALSE, k(c))],
                   members |-> {}]
        /\ evH = [i \in EvIds |-> Handle("valid", FALSE, e(i))]
        /\ catH = [c \in CatIds |-> Handle("valid", FALSE, k(c))]
        /\ last = Call("init", "none", 0)
        /\ saved = StorageView
        /\ ops = 0
        /\ blob = NoBlob
        /\ in_transaction = FALSE

\* get_catalogues(predicate, removed_items), predicate possibly None
get_catalogues_by(predicate, removed_items) ==
    /\ Constructible(predicate)
    /\ Asked("get_catalogues", get_catalogues(predicate, removed_items).err, predicate)

\* the predicates the catalogues are given, and the ones queried with
CataloguePreds == {NoPred, 1, 2, 3, 5}
AskedPreds == {NoPred, 1, 2, 4, 6, 7}
AskedOfCatalogues == {NoPred, 1, 2, 4, 5, 6, 8}

\* the flags of get_events(catalogue): none, assigned_only, filtered_only
Modes == {<<FALSE, FALSE>>, <<TRUE, FALSE>>, <<FALSE, TRUE>>}

NextQuery ==
    \/ /\ ops < MaxQueryOps
       /\ \/ \E c \in CatIds, p \in CataloguePreds : set_catalogue_field(c, "predicate", p)
          \/ \E c \in CatIds, i \in EvIds : add_events(c, <<i>>)
          \/ \E c \in CatIds, i \in EvIds : remove_events(c, <<i>>)
          \/ \E i \in EvIds : remove_event(i, FALSE)
          \/ \E i \in EvIds : restore_event(i)
          \/ \E c \in CatIds : remove_catalogue(c, FALSE)
          \/ \E c \in CatIds : restore_catalogue(c)
    \/ \E p \in AskedPreds : get_events(p, FALSE)
    \/ \E c \in CatIds, mode \in Modes : get_events_of_catalogue(c, FALSE, mode[1], mode[2])
    \/ \E p \in AskedOfCatalogues : get_catalogues_by(p, FALSE)

SpecQuery == InitQuery /\ [][NextQuery]_vars


\* What a predicate means for one event: a comparison holds of the event's
\* field, InCatalogue(c) of the explicit members of c and of the events that
\* c's predicate holds of, InCatalogue(None) of the events no catalogue has.
RECURSIVE Holds(_, _, _, _)
Holds(orm_class, pred, e, fuel) ==
    LET node == Arena[pred]
    IN  IF fuel = 0 THEN FALSE
        ELSE CASE node.k = "Comparison" ->
                    LET attrs == RowOf(orm_class, e).d.attrs
                        value == IF node.lhs.kind = "Field"
                                 THEN ColumnValue(orm_class, e, node.lhs.value)
                                 ELSE IF node.lhs.value \in DOMAIN attrs THEN attrs[node.lhs.value]
                                 ELSE NoneV
                    IN  op_map(node.op, value, node.rhs)
               [] node.k = "All" -> \A n \in 1..Len(node.args) : Holds(orm_class, node.args[n], e, fuel - 1)
               [] node.k = "Any" -> \E n \in 1..Len(node.args) : Holds(orm_class, node.args[n], e, fuel - 1)
               [] node.k = "Not" -> ~Holds(orm_class, node.args[1], e, fuel - 1)
               [] node.k = "InCatalogue" ->
                    IF orm_class # "Event" THEN FALSE
                    ELSE IF node.cat = 0 THEN \A c \in CatIds : <<c, e>> \notin members
                    ELSE IF <<node.cat, e>> \in members THEN TRUE
                    ELSE IF catH[node.cat].d.predicate = NoPred THEN FALSE
                    ELSE Holds(orm_class, catH[node.cat].d.predicate, e, fuel - 1)

Matches(pred, e) == Holds("Event", pred, e, Len(Arena) + 1)

\* the events that are explicit members of catalogue c or match its predicate
MembersOrMatching(c) ==
    {e \in EvIds : /\ ev[e].st = "live"
                   /\ IF <<c, e>> \in members THEN TRUE
                      ELSE IF catH[c].d.predicate = NoPred THEN FALSE
                      ELSE Matches(catH[c].d.predicate, e)}

\* C3: get_events(c) without narrowing flags returns, each once, the events
\* that are not removed and are explicit members of c or match c's predicate
\* (the explicit members alone when c has no predicate).
C3_MembersOrMatching ==
    (last.op = "get_events_of_catalogue" /\ last.err = "none") =>
        LET r == _get_events_from_catalogue(last.id, FALSE, FALSE, FALSE)
            expected == {e \in MembersOrMatching(last.id) : ~ev[e].removed}
        IN  /\ r.err = "none"
            /\ EntitySet(r.items) = expected
            /\ Len(r.items) = Cardinality(expected)

\* the query returned for a dynamic catalogue with an event that is both an
\* explicit member and a match, and a removed event that is one of the two
C3_Witness ==
    /\ last.op = "get_events_of_catalogue" /\ last.err = "none"
    /\ catH[last.id].d.predicate # NoPred
    /\ \E e \in EvIds : /\ <<last.id, e>> \in members
                        /\ Matches(catH[last.id].d.predicate, e)
                        /\ ~ev[e].removed
    /\ \E e \in MembersOrMatching(last.id) : ev[e].removed

\* The queries of one kind of entity: all of them, by predicate, or by a
\* related entity (the catalogue of the events, the event of the catalogues).
Queries(orm_class) ==
    {<<"all", 0>>} \cup {<<"predicate", p>> : p \in PredIds}
        \cup {<<"related", x>> : x \in IF orm_class = "Event" THEN CatIds ELSE EvIds}

\* the entities a query returns; a query that raises returns none
Hits(orm_class, q, removed_items) ==
    LET r == IF orm_class = "Event"
             THEN IF q[1] = "related"
                  THEN _get_events_from_catalogue(q[2], removed_items, FALSE, FALSE)
                  ELSE _get_events_from_predicate_or_none(q[2], removed_items)
             ELSE IF q[1] = "related"
                  THEN get_catalogues_of_event(q[2], removed_items)
                  ELSE get_catalogues(q[2], removed_items)
    IN  IF r.err = "none" THEN EntitySet(r.items) ELSE {}

\* does the query raise nothing?
Answers(orm_class, q) ==
    IF orm_class = "Event"
    THEN IF q[1] = "related"
         THEN _get_events_from_catalogue(q[2], FALSE, FALSE, FALSE).err = "none"
         ELSE _get_events_from_predicate_or_none(q[2], FALSE).err = "none"
    ELSE IF q[1] = "related"
         THEN get_catalogues_of_event(q[2], FALSE).err = "none"
         ELSE get_catalogues(q[2], FALSE).err = "none"

\* the queries that select entity i, whatever its removed flag: every
\* predicate that holds of it and every entity it is related to
QueriesOf(orm_class, i) ==
    {q \in Queries(orm_class) :
        /\ Answers(orm_class, q)
        /\ CASE q[1] = "all" -> TRUE
             [] q[1] = "predicate" -> Holds(orm_class, q[2], i, Len(Arena) + 1)
             [] q[1] = "related" ->
                    IF orm_class = "Event" THEN i \in MembersOrMatching(q[2])
                    ELSE <<i, q[2]>> \in members}

\* the call op on entity i has just returned
JustCalled(op, orm_class, i) ==
    last = Call(IF orm_class = "Event" THEN op[1] ELSE op[2], "none", i)

Refs(c) == IF catH[c].d.predicate = NoPred THEN {} ELSE CataloguesOf(catH[c].d.predicate)

RECURSIVE ReachableFrom(_, _)
ReachableFrom(S, n) ==
    IF n = 0 THEN S ELSE ReachableFrom(S \cup UNION {Refs(c) : c \in S}, n - 1)

\* c's predicate leads back to c through InCatalogue
OnCycle(c) == c \in ReachableFrom(Refs(c), MaxCats)

\* C10: get_events on a catalogue whose predicate leads back to the catalogue
\* through InCatalogue raises PredicateRecursionError: the evaluation ends and
\* returns no result.
C10_CycleRaises ==
    \A c \in CatIds :
        (has_backend_entity(catH[c]) /\ OnCycle(c)) =>
            /\ \A removed_items, filtered_only \in BOOLEAN :
                _get_events_from_catalogue(c, removed_items, FALSE, filtered_only).err
                    = "PredicateRecursionError"
            /\ (last.op = "get_events_of_catalogue" /\ last.id = c)
                => last.err = "PredicateRecursionError"

\* the query was made on a catalogue of a chain a -> b -> a
C10_Witness ==
    /\ last.op = "get_events_of_catalogue" /\ last.err = "PredicateRecursionError"
    /\ \E b \in CatIds : /\ b # last.id
                         /\ b \in Refs(last.id)
                         /\ last.id \in Refs(b)
                         /\ last.id \notin Refs(last.id)


\* -------------------------------------------------- the validation model
\* One event and one catalogue, created with and assigned every kind of
\* value, acceptable or not; save() and discard() in between.
Ratings == {NoneV, IntV(0), IntV(1), IntV(10), IntV(11), FloatV(5), StrV(<<"1">>)}
StringLists == {<<>>, <<StrV(<<"t">>)>>, <<StrV(<<"t", ",">>)>>, <<IntV(1)>>,
                <<StrV(<<"t">>), StrV(<<",">>)>>}
Uuids == {UuidV("v4", 7), UuidV("bad", 0)}
AttrNames == {<<"a">>, <<"a", "_", "1">>, <<"1">>, <<"_">>, <<>>, <<"a", "\n">>}
Attrs == {NoAttrs} \cup {[k \in {name} |-> IntV(1)] : name \in AttrNames}

EventInputs ==
    {[EventArgs(1, 1, P) EXCEPT !.start = s, !.stop = t] : s, t \in Times}
        \cup {[EventArgs(1, 1, P) EXCEPT !.rating = r] : r \in Ratings}
        \cup {[EventArgs(1, 1, P) EXCEPT !.tags = l] : l \in StringLists}
        \cup {[EventArgs(1, 1, P) EXCEPT !.products = l] : l \in StringLists}
        \cup {[EventArgs(1, 1, P) EXCEPT !.uuid = u] : u \in Uuids}
        \cup {[EventArgs(1, 1, P) EXCEPT !.attrs = a] : a \in Attrs}

CatalogueInputs ==
    {[CatalogueArgs(<<"a">>, NoPred) EXCEPT !.name = n] : n \in {<<>>, <<"b">>}}
        \cup {[CatalogueArgs(<<"a">>, NoPred) EXCEPT !.tags = l] : l \in StringLists}
        \cup {[CatalogueArgs(<<"a">>, NoPred) EXCEPT !.uuid = u] : u \in Uuids}
        \cup {[CatalogueArgs(<<"a">>, NoPred) EXCEPT !.attrs = a] : a \in Attrs}

\* the assignments key := value to a fixed field
EventAssignments ==
    {<<key, t>> : key \in {"start", "stop"}, t \in Times}
        \cup {<<"rating", r>> : r \in Ratings}
        \cup {<<key, l>> : key \in {"tags", "products"}, l \in StringLists}
        \cup {<<"uuid", u>> : u \in Uuids}

CatalogueAssignments ==
    {<<"name", n>> : n \in {<<>>, <<"b">>}}
        \cup {<<"tags", l>> : l \in StringLists}
        \cup {<<"uuid", u>> : u \in Uuids}

NextValid ==
    \/ \E a \in EventInputs : ev[1].st = "free" /\ create_event(a)
    \/ \E a \in CatalogueInputs : cat[1].st = "free" /\ create_catalogue(a, <<>>)
    \/ \E kv \in EventAssignments : set_event_field(1, kv[1], kv[2])
    \/ \E kv \in CatalogueAssignments : set_catalogue_field(1, kv[1], kv[2])
    \/ save
    \/ discard

SpecValid == Init /\ [][NextValid]_vars

\* the constraints on the fixed fields, as the specification states them
StringListOk(l) == \A n \in 1..Len(l) : l[n].t = "str" /\ "," \notin {l[n].s[m] : m \in 1..Len(l[n].s)}
RatingOk(r) == r = NoneV \/ (r.t = "int" /\ 1 <= r.v /\ r.v <= 10)
Constraints(orm_class, d) ==
    IF orm_class = "Event"
    THEN d.start <= d.stop /\ RatingOk(d.rating) /\ StringListOk(d.tags) /\ StringListOk(d.products)
    ELSE d.name # <<>> /\ StringListOk(d.tags)

\* C8: the fixed fields of every valid handle satisfy the constraints after
\* every call; an assignment whose value would break one raises
\* ValidationError and changes neither the handle nor storage.
C8_ConstraintsKept ==
    [][ /\ \A orm_class \in Classes : \A i \in IdsOf(orm_class) :
            HandleOf(orm_class, i)'.st = "valid" => Constraints(orm_class, HandleOf(orm_class, i)'.d)
        /\ \A kv \in EventAssignments :
            (/\ set_event_field(1, kv[1], kv[2])
             /\ evH[1].st = "valid"
             /\ ~Constraints("Event", [evH[1].d EXCEPT ![kv[1]] = kv[2]]))
            => (last'.err = "ValidationError" /\ UNCHANGED <<evH, ev, disk>>)
        /\ \A kv \in CatalogueAssignments :
            (/\ set_catalogue_field(1, kv[1], kv[2])
             /\ catH[1].st = "valid"
             /\ ~Constraints("Catalogue", [catH[1].d EXCEPT ![kv[1]] = kv[2]]))
            => (last'.err = "ValidationError" /\ UNCHANGED <<catH, cat, disk>>)
      ]_vars

\* a start after the stop was refused for an event whose handle and row hold
\* values that were assigned before
C8_Witness ==
    /\ last = Call("setattr", "ValidationError", 1)
    /\ evH[1].st = "valid" /\ ev[1].st = "live"
    /\ evH[1].d.start = 2 /\ evH[1].d.stop = 2 /\ evH[1].d.rating = IntV(10)
    /\ ev[1].d = evH[1].d

\* the attribute name pattern [A-Za-z][A-Za-z0-9_]* of the specification
NamePattern(k) ==
    /\ Len(k) >= 1
    /\ k[1] \in Letters
    /\ \A n \in 1..Len(k) : k[n] \in Letters \cup Digits \cup {"_"}

\* an argument record that violates a constraint
Violates(orm_class, a) ==
    \/ ~Constraints(orm_class, a)
    \/ a.uuid.form = "bad"
    \/ \E k \in DOMAIN a.attrs : ~NamePattern(k)

\* C9: create_event and create_catalogue with an argument that violates a
\* constraint raise ValidationError, and the queries return what they
\* returned before the call.
C9_Original ==
    [][ /\ \A a \in EventInputs :
            (create_event(a) /\ Violates("Event", a))
            => (last'.err = "ValidationError" /\ StorageView' = StorageView)
        /\ \A a \in CatalogueInputs :
            (create_catalogue(a, <<>>) /\ Violates("Catalogue", a))
            => (last'.err = "ValidationError" /\ StorageView' = StorageView)
      ]_vars

C15_NarrowingModes ==
    (last.err = "none" /\ last.op \in {"get_events_assigned_only", "get_events_filtered_only"}) =>
        (catH[last.id].d.predicate # NoPred =>
            LET c == last.id
                r == _get_events_from_catalogue(c, FALSE, last.op = "get_events_assigned_only",
                                                last.op = "get_events_filtered_only")
                expected == IF last.op = "get_events_assigned_only"
                            THEN {e \in Table("Event") : <<c, e>> \in members /\ ~ev[e].removed}
                            ELSE {e \in Table("Event") :
                                    Matches(catH[c].d.predicate, e) /\ ~ev[e].removed}
            IN  /\ r.err = "none"
                /\ EntitySet(r.items) = expected
                /\ Len(r.items) = Cardinality(expected))

\* filtered_only was asked of a dynamic catalogue that has a member which
\* does not match and a match which is no member: the two modes return
\* disjoint, non-empty lists
C15_Witness ==
    /\ last.op = "get_events_filtered_only" /\ last.err = "none"
    /\ catH[last.id].d.predicate # NoPred
    /\ LET a == EntitySet(_get_events_from_catalogue(last.id, FALSE, TRUE, FALSE).items)
           f == EntitySet(_get_events_from_catalogue(last.id, FALSE, FALSE, TRUE).items)
       IN  a # {} /\ f # {} /\ a \cap f = {}

\* C16: add_events_to_catalogue with an event that is already an explicit
\* member of the catalogue raises, and remove_events_from_catalogue with an
\* event that is no explicit member raises, also when the catalogue's
\* predicate holds of the event; neither call then changes the members, a
\* successful add leaves a member, and the explicit members a query lists
\* for a catalogue hold no event twice.
C16_MembershipErrors ==
    \A c \in CatIds :
        /\ \A i \in EvIds :
              (has_backend_entity(catH[c]) /\ has_backend_entity(evH[i])) =>
                  LET added == SessionMembership(c, <<i>>, TRUE)
                      removed == SessionMembership(c, <<i>>, FALSE)
                  IN  /\ <<c, i>> \in members
                          => (added.err = "AlreadyInCatalogue" /\ added.rows = members)
                      /\ <<c, i>> \notin members
                          => (removed.err = "NotInCatalogue" /\ removed.rows = members)
        /\ last.id = c /\ last.op = "add_events_to_catalogue" /\ last.err = "none"
              => \E i \in EvIds : <<c, i>> \in members
        /\ \A removed_items \in BOOLEAN :
              LET ids == _create_query(Base(NoPred, c, removed_items), "Event").ids
              IN  \A n, m \in 1..Len(ids) : ids[n] = ids[m] => n = m

\* a removal was refused for a dynamic catalogue without explicit members
\* whose predicate holds of every event
C16_Witness ==
    /\ last.op = "remove_events_from_catalogue" /\ last.err = "NotInCatalogue"
    /\ catH[last.id].d.predicate # NoPred
    /\ \A e \in EvIds : /\ <<last.id, e>> \notin members
                         /\ e \in Table("Event")
                         /\ Matches(catH[last.id].d.predicate, e)

\* the events get_events() returns, without and with the removed ones, each
\* with its fields, attributes and removed flag
EventsView ==
    [r \in BOOLEAN |-> Backend_get("Event", Base(NoPred, 0, r)).items]

\* the explicit members of catalogue c, removed or not
ExplicitMembers(c) ==
    {e \in EvIds : \E r \in BOOLEAN :
                        LET ids == _create_query(Base(NoPred, c, r), "Event").ids
                        IN  \E n \in 1..Len(ids) : ids[n] = e}

\* C17: a remove() of a catalogue, into the trash or permanent, changes
\* neither the events get_events() returns nor a field or the removed flag
\* of any event; a removal into the trash and a restore() each leave the
\* explicit members of the catalogue as they were, and after the removal
\* into the trash get_events(c) still returns the members.
C17_CatalogueRemovalFrame ==
    [][\A c \in CatIds :
        /\ (last'.id = c /\ last'.op \in {"remove_catalogue", "remove_catalogue_permanently",
                                           "restore_catalogue"})
             => EventsView' = EventsView
        /\ (last'.id = c /\ last'.op \in {"remove_catalogue", "restore_catalogue"}
                /\ last'.err = "none")
             => /\ ExplicitMembers(c)' = ExplicitMembers(c)
                /\ LET r == _get_events_from_catalogue(c, FALSE, FALSE, FALSE)'
                   IN  /\ r.err = "none"
                       /\ EntitySet(r.items) = {e \in ExplicitMembers(c) : ~ev[e].removed}
      ]_vars

\* a catalogue with a member was put in the trash
C17_Witness ==
    /\ last.op = "remove_catalogue" /\ last.err = "none"
    /\ cat[last.id].st = "live" /\ cat[last.id].removed
    /\ ExplicitMembers(last.id) # {}

\* --------------------------------------------------- InCatalogue in queries
\* the events, removed or not, that get_events(pred) selects
Selected(pred) ==
    EntitySet(_get_events_from_predicate_or_none(pred, FALSE).items)
        \cup EntitySet(_get_events_from_predicate_or_none(pred, TRUE).items)

\* C18: in an event query InCatalogue(c) selects, for a static catalogue c,
\* exactly the events explicitly assigned to c, for a dynamic catalogue c
\* exactly the events explicitly assigned to c or matching c's predicate,
\* and InCatalogue(None) exactly the events explicitly assigned to no
\* catalogue.
C18_InCatalogueSelects ==
    (last.op = "get_events" /\ last.err = "none" /\ last.id # NoPred) =>
        (Arena[last.id].k = "InCatalogue" =>
            LET c == Arena[last.id].cat
                expected ==
                    IF c = 0
                    THEN {e \in Table("Event") : \A k \in CatIds : <<k, e>> \notin members}
                    ELSE IF catH[c].d.predicate = NoPred
                    THEN {e \in Table("Event") : <<c, e>> \in members}
                    ELSE {e \in Table("Event") :
                            <<c, e>> \in members \/ Matches(catH[c].d.predicate, e)}
            IN  Selected(last.id) = expected)

\* InCatalogue(c) was asked of a dynamic catalogue c with a member its
\* predicate does not hold of and a match that is no member, while the
\* other catalogue has a member of its own
C18_Witness ==
    /\ last.op = "get_events" /\ last.err = "none" /\ last.id # NoPred
    /\ Arena[last.id].k = "InCatalogue" /\ Arena[last.id].cat # 0
    /\ LET c == Arena[last.id].cat
       IN  /\ catH[c].d.predicate # NoPred
           /\ \E e \in EvIds : <<c, e>> \in members /\ ~Matches(catH[c].d.predicate, e)
           /\ \E e \in EvIds : <<c, e>> \notin members /\ Matches(catH[c].d.predicate, e)
           /\ \E k \in CatIds \ {c}, e \in EvIds : <<k, e>> \in members

\* whether the predicate object holds an InCatalogue node, itself or nested
RECURSIVE ContainsInCatalogue(_)
ContainsInCatalogue(pred) ==
    LET node == Arena[pred]
    IN  \/ node.k = "InCatalogue"
        \/ \E n \in 1..Len(node.args) : ContainsInCatalogue(node.args[n])

\* C19: get_catalogues with a predicate that holds an InCatalogue node, at
\* top level or nested in Not, All or Any, raises CatalogueFilterError
\* instead of returning, and changes no row of the session or of the file.
C19_CatalogueFilterError ==
    [][\A p \in PredIds :
          (last'.op = "get_catalogues" /\ last'.id = p /\ ContainsInCatalogue(p))
              => /\ last'.err = "CatalogueFilterError"
                 /\ get_catalogues(p, FALSE).err = "CatalogueFilterError"
                 /\ get_catalogues(p, TRUE).err = "CatalogueFilterError"
                 /\ UNCHANGED <<ev, cat, members, disk>>]_vars

\* get_catalogues was refused for a predicate with a nested InCatalogue node
\* while catalogues, one of them dynamic, and members are stored
C19_Witness ==
    /\ last.op = "get_catalogues" /\ last.err = "CatalogueFilterError"
    /\ last.id # NoPred
    /\ Arena[last.id].k \in {"Not", "All", "Any"}
    /\ members # {}
    /\ \E c \in Table("Catalogue") : cat[c].d.predicate # NoPred

\* ------------------------------------------------ comparisons of attributes
\* Events and catalogues without the attribute "a" or with a value of one of
\* three types for it; the attribute of the first event and of the first
\* catalogue is assigned and deleted, and the comparison predicates of the
\* arena are asked of both tables.
CompareValues == {IntV(1), IntV(2), FloatV(1), StrV(<<"b">>)}
CompareAttrs == {NoAttrs} \cup {[k \in {AttrKey} |-> v] : v \in CompareValues \ {IntV(2)}}
ComparePreds == {n \in PredIds : n >= 9}

InitCompare ==
    \E ea \in [EvIds -> CompareAttrs], ca \in {NoAttrs, [k \in {AttrKey} |-> FloatV(1)]} :
        LET e(i) == EventData(uuid4(i), 1, 1, P, <<>>, <<>>, NoneV, ea[i])
            k(c) == CatalogueData(uuid4(c), <<"a">>, P, <<>>, NoPred, IF c = 1 THEN NoAttrs ELSE ca)
        IN  /\ ev = [i \in EvIds |-> add_event(e(i))]
            /\ cat = [c \in CatIds |-> add_catalogue(k(c))]
            /\ members = {}
            /\ disk = [ev |-> [i \in EvIds |-> Row(TRUE, FALSE, e(i))],
                       cat |-> [c \in CatIds |-> Row(TRUE, FALSE, k(c))],
                       members |-> {}]
            /\ evH = [i \in EvIds |-> Handle("valid", FALSE, e(i))]
            /\ catH = [c \in CatIds |-> Handle("valid", FALSE, k(c))]
            /\ last = Call("init", "none", 0)
            /\ saved = StorageView
            /\ ops = 0
            /\ blob = NoBlob
            /\ in_transaction = FALSE

NextCompare ==
    \/ /\ ops < MaxCompareOps
       /\ \/ \E v \in CompareValues : set_event_attribute(1, AttrKey, v)
          \/ del_event_attribute(1, AttrKey)
          \/ \E v \in CompareValues : set_catalogue_attribute(1, AttrKey, v)
          \/ del_catalogue_attribute(1, AttrKey)
    \/ \E p \in ComparePreds : get_events(p, FALSE)
    \/ \E p \in ComparePreds : get_catalogues_by(p, FALSE)

SpecCompare == InitCompare /\ [][NextCompare]_vars

isoformat(t) == [iso |-> t]
fromisoformat(x) == x.iso

\* str() of a predicate object is its text, numbered -p; a string stays
PredStr(p) == IF p > 0 THEN -p ELSE p

\* an event.dump() and a catalogue.dump() as json holds them
ToJsonEvent(d) == [dump(d) EXCEPT !.start = isoformat(d.start), !.stop = isoformat(d.stop)]
ToJsonCatalogue(d) == [dump(d) EXCEPT !.predicate = PredStr(d.predicate)]

\* DumpCatalogue.add_events (import_export.py:42-45): the events of the
\* bundle are a dict keyed by uuid
RECURSIVE DumpCatalogue_add_events(_, _)
DumpCatalogue_add_events(events, items) ==
    IF items = <<>> THEN events
    ELSE LET e == ToJsonEvent(Head(items).d)
             at == {n \in 1..Len(events) : events[n].uuid = e.uuid}
         IN  DumpCatalogue_add_events(
                IF at # {} THEN [n \in 1..Len(events) |-> IF n \in at THEN e ELSE events[n]]
                ELSE Append(events, e),
                Tail(items))

\* one round of the loop of export_json (import_export.py:138-140): the dump
\* of the first catalogue with the uuids of r, its get_events(catalogue)
RECURSIVE ExportEach(_, _)
ExportOne(catalogues, data, r) ==
    IF r.err # "none" THEN [err |-> r.err, data |-> data]
    ELSE ExportEach(Tail(catalogues),
            [catalogues |-> Append(data.catalogues,
                              [d |-> ToJsonCatalogue(catH[Head(catalogues)].d),
                               events |-> [n \in 1..Len(r.items) |-> r.items[n].d.uuid]]),
             events |-> DumpCatalogue_add_events(data.events, r.items)])

\* the loop of export_json over the catalogue handles
ExportEach(catalogues, data) ==
    IF catalogues = <<>> THEN [err |-> "none", data |-> data]
    ELSE ExportOne(catalogues, data, _get_events_from_catalogue(Head(catalogues), FALSE, FALSE, FALSE))

\* get_events(c) for the catalogue row c as get_catalogues hands it back: the
\* error raised, or the events as values
ValuesOf(r) == [err |-> r.err, events |-> {r.items[n].d : n \in 1..Len(r.items)}]
MembershipOf(c) ==
    ValuesOf(FetchAll("Event", _create_query(Base(cat[c].d.predicate, c, FALSE), "Event"), FALSE))

\* what get_events(), get_catalogues() and get_events(c) return, as values
DataView ==
    [events |-> {ev[i].d : i \in {j \in Table("Event") : ~ev[j].removed}},
     catalogues |-> {cat[c].d : c \in {k \in Table("Catalogue") : ~cat[k].removed}},
     membership |-> {<<cat[c].d.uuid, MembershipOf(c)>> :
                        c \in {k \in Table("Catalogue") : ~cat[k].removed}}]

\* what export_json returns: the bundle r.data as json, or the error; id is
\* the first catalogue handle
Exported(r, id) ==
    /\ blob' = IF r.err = "none"
               THEN [catalogues |-> r.data.catalogues, events |-> r.data.events,
                     stamp |-> ops + 1, view |-> DataView]
               ELSE blob
    /\ Returned("export_json", r.err, id)

\* export_json(catalogues) (import_export.py:135-142)
export_json(catalogues) ==
    /\ ops < MaxOps
    /\ ops' = ops + 1
    /\ \A n \in 1..Len(catalogues) : UsableCatalogue(catalogues[n])
    /\ Exported(ExportEach(catalogues, [catalogues |-> <<>>, events |-> <<>>]), catalogues[1])
    /\ UNCHANGED <<ev, cat, members, disk, evH, catH, saved>>

\* the rows with uuid u that are not in the trash, as a query of
\* filtering.UUID(u) selects them (filtering.py:148-151)
UuidQuery(orm_class, u) ==
    [err |-> "none",
     ids |-> InOrder({i \in Table(orm_class) : /\ ~RowOf(orm_class, i).removed
                                              /\ RowOf(orm_class, i).d.uuid = u},
                     MaxId(orm_class))]

\* Backend.get_events_by_uuid_list(uuids): the event rows with one of the
\* uuids, by uuid
get_events_by_uuid_list(uuids) ==
    LET rows(u) == {i \in Table("Event") : ev[i].d.uuid = u}
        found == {uuids[n] : n \in 1..Len(uuids)} \cap {ev[i].d.uuid : i \in Table("Event")}
    IN  [u \in found |-> CHOOSE i \in rows(u) : \A j \in rows(u) : j <= i]

\* check_event (import_export.py:68-75): the dict of the stored event, its
\* attributes beside its fields, start and stop in isoformat
check_event(i) == [ev[i].d EXCEPT !.start = isoformat(ev[i].d.start), !.stop = isoformat(ev[i].d.stop)]

\* list.sort() of a list of uuid strings
RECURSIVE sort(_)
sort(uuids) ==
    IF uuids = <<>> THEN <<>>
    ELSE LET m == CHOOSE n \in 1..Len(uuids) :
                    /\ \A j \in 1..Len(uuids) : uuids[n].n <= uuids[j].n
                    /\ \A j \in 1..(n - 1) : uuids[j].n # uuids[n].n
         IN  <<uuids[m]>> \o sort([n \in 1..(Len(uuids) - 1) |->
                                     IF n < m THEN uuids[n] ELSE uuids[n + 1]])

\* the comparison of a bundled catalogue with the stored catalogue c, r being
\* get_events(c) (import_export.py:86-96)
Compared(catalogue, c, r) ==
    IF r.err # "none" THEN [err |-> r.err, drop |-> FALSE]
    ELSE IF [d |-> ToJsonCatalogue(c.d),
             events |-> sort([n \in 1..Len(r.items) |-> r.items[n].d.uuid])]
            # [d |-> catalogue.d, events |-> sort(catalogue.events)]
    THEN [err |-> "ValueError", drop |-> FALSE]
    ELSE [err |-> "none", drop |-> TRUE]

\* the check of a bundled catalogue against found, the stored catalogues of
\* its uuid (import_export.py:82-96)
Checked(catalogue, found) ==
    IF found.err # "none" THEN [err |-> found.err, drop |-> FALSE]
    ELSE IF Len(found.items) = 0 THEN [err |-> "none", drop |-> FALSE]
    ELSE Compared(catalogue, found.items[1],
                  FetchAll("Event",
                           _create_query(Base(found.items[1].d.predicate, found.items[1].entity, FALSE),
                                         "Event"),
                           FALSE))

\* the check of one bundled catalogue (import_export.py:81-96): the error
\* raised, or whether the catalogue is dropped from the bundle
check_catalogue(catalogue) ==
    Checked(catalogue, FetchAll("Catalogue", UuidQuery("Catalogue", catalogue.d.uuid), FALSE))

RECURSIVE CanonicalEvents(_, _)
CanonicalEvents(events, existing) ==
    IF events = <<>> THEN [err |-> "none", events |-> <<>>]
    ELSE LET event == Head(events)
         IN  IF event.uuid \notin DOMAIN existing
             THEN LET rest == CanonicalEvents(Tail(events), existing)
                  IN  [err |-> rest.err, events |-> <<event>> \o rest.events]
             ELSE IF check_event(existing[event.uuid]) # event
             THEN [err |-> "ValueError", events |-> <<>>]
             ELSE CanonicalEvents(Tail(events), existing)

\* the loop over the bundled catalogues (import_export.py:81-97), r being the
\* check of the first of them
RECURSIVE CanonicalCatalogues(_)
CanonicalOne(catalogues, r) ==
    IF r.err # "none" THEN [err |-> r.err, catalogues |-> <<>>]
    ELSE LET rest == CanonicalCatalogues(Tail(catalogues))
         IN  [err |-> rest.err,
              catalogues |-> IF r.drop THEN rest.catalogues
                             ELSE <<Head(catalogues)>> \o rest.catalogues]

CanonicalCatalogues(catalogues) ==
    IF catalogues = <<>> THEN [err |-> "none", catalogues |-> <<>>]
    ELSE CanonicalOne(catalogues, check_catalogue(Head(catalogues)))

\* the data of the two loops together: the first error in the order of the code
Canonical(e, c) ==
    IF e.err # "none" THEN [err |-> e.err, events |-> <<>>, catalogues |-> <<>>]
    ELSE [err |-> c.err, events |-> e.events, catalogues |-> c.catalogues]

\* __canonicalize_from_dict (import_export.py:54-99): the error raised, or the
\* events and catalogues of the bundle that storage does not hold
__canonicalize_from_dict(data) ==
    Canonical(CanonicalEvents(data.events,
                  get_events_by_uuid_list([n \in 1..Len(data.events) |-> data.events[n].uuid])),
              CanonicalCatalogues(data.catalogues))

\* the ids a new row can take: never used, or left by a row that is gone
Reusable(objs) == {i \in DOMAIN objs : objs[i].st \in {"free", "gone"}}
FirstOf(S) == CHOOSE i \in S : \A j \in S : i <= j

\* the first loop of __import_canonicalized_dict (import_export.py:108-111)
RECURSIVE ImportEvents(_, _)
ImportEvents(events, st) ==
    IF events = <<>> THEN st
    ELSE LET event == [Head(events) EXCEPT !.start = fromisoformat(Head(events).start),
                                           !.stop = fromisoformat(Head(events).stop)]
             i == FirstOf(Reusable(st.ev))
         IN  IF EventCtorError(event) THEN [st EXCEPT !.err = "ValidationError"]
             ELSE ImportEvents(Tail(events),
                    [st EXCEPT !.ev = [st.ev EXCEPT ![i] = add_event(event)],
                               !.evH = [st.evH EXCEPT ![i] = Handle("valid", FALSE, event)],
                               !.event_of_uuid = [u \in DOMAIN st.event_of_uuid \cup {event.uuid} |->
                                                    IF u = event.uuid THEN i
                                                    ELSE st.event_of_uuid[u]]])

\* the second loop of __import_canonicalized_dict (import_export.py:113-121)
RECURSIVE ImportCatalogues(_, _)
ImportCatalogues(catalogues, st) ==
    IF catalogues = <<>> \/ st.err # "none" THEN st
    ELSE LET catalogue_dict == Head(catalogues)
             stored(u) == UuidQuery("Event", u).ids
             missing == \E n \in 1..Len(catalogue_dict.events) :
                            /\ catalogue_dict.events[n] \notin DOMAIN st.event_of_uuid
                            /\ stored(catalogue_dict.events[n]) = <<>>
             catalogue_events == [n \in 1..Len(catalogue_dict.events) |->
                                    LET u == catalogue_dict.events[n]
                                    IN  IF u \in DOMAIN st.event_of_uuid THEN st.event_of_uuid[u]
                                        ELSE stored(u)[1]]
             c == FirstOf(Reusable(st.cat))
         IN  IF missing THEN [st EXCEPT !.err = "IndexError"]
             ELSE IF CatalogueCtorError(catalogue_dict.d) THEN [st EXCEPT !.err = "ValidationError"]
             ELSE LET r == add_events_to_catalogue(c, catalogue_events, st.members)
                  IN  ImportCatalogues(Tail(catalogues),
                         [st EXCEPT !.cat = [st.cat EXCEPT ![c] = add_catalogue(catalogue_dict.d)],
                                    !.catH = [st.catH EXCEPT ![c] = Handle("valid", FALSE, catalogue_dict.d)],
                                    !.members = r.rows,
                                    !.err = r.err,
                                    !.catalogues = IF r.err = "none" THEN Append(st.catalogues, c)
                                                   ELSE st.catalogues])

\* __import_canonicalized_dict (import_export.py:102-123)
__import_canonicalized_dict(data) ==
    ImportCatalogues(data.catalogues,
        ImportEvents(data.events,
            [ev |-> ev, cat |-> cat, members |-> members, evH |-> evH, catH |-> catH,
             event_of_uuid |-> [u \in {} |-> 0], catalogues |-> <<>>, err |-> "none"]))

\* the session after the with block (import_export.py:104-123, base.py:46-47)
Written(st) ==
    /\ ev' = st.ev
    /\ cat' = st.cat
    /\ members' = st.members
    /\ evH' = st.evH
    /\ catH' = st.catH
    /\ Returned("import_json", st.err, Len(st.catalogues))

\* import_json once the bundle is canonicalized to data
Imported(data) ==
    IF data.err # "none"
    THEN /\ Returned("import_json", data.err, 0)
         /\ UNCHANGED <<ev, cat, members, evH, catH>>
    ELSE /\ Cardinality(Reusable(ev)) >= Len(data.events)
         /\ Cardinality(Reusable(cat)) >= Len(data.catalogues)
         /\ Written(__import_canonicalized_dict(data))

\* import_json(jsons) of the bundle last exported (import_export.py:150-152);
\* last.id is the number of catalogues returned
import_json ==
    /\ Step
    /\ blob # NoBlob
    /\ Imported(__canonicalize_from_dict(blob))
    /\ UNCHANGED <<disk, saved>>

\* The storage the import is checked on: event 1 and the static catalogue 1
\* that holds it are saved; catalogue 2 is not created yet, or is a dynamic
\* catalogue created since the last save.
InitImport ==
    \E created \in BOOLEAN :
        LET e == EventData(uuid4(1), 1, 1, P, <<>>, <<>>, NoneV, NoAttrs)
            k == CatalogueData(uuid4(1), <<"a">>, P, <<>>, NoPred, NoAttrs)
            dynamic == CatalogueData(uuid4(2), <<"a">>, P, <<>>, 1, NoAttrs)
        IN  /\ ev = [i \in EvIds |-> IF i = 1 THEN add_event(e) ELSE Obj("free", FALSE, BlankEvent)]
            /\ cat = [c \in CatIds |-> IF c = 1 THEN add_catalogue(k)
                                       ELSE IF c = 2 /\ created THEN add_catalogue(dynamic)
                                       ELSE Obj("free", FALSE, BlankCatalogue)]
            /\ members = {<<1, 1>>}
            /\ disk = [ev |-> [i \in EvIds |-> IF i = 1 THEN Row(TRUE, FALSE, e)
                                               ELSE Row(FALSE, FALSE, BlankEvent)],
                       cat |-> [c \in CatIds |-> IF c = 1 THEN Row(TRUE, FALSE, k)
                                                 ELSE Row(FALSE, FALSE, BlankCatalogue)],
                       members |-> {<<1, 1>>}]
            /\ evH = [i \in EvIds |-> IF i = 1 THEN Handle("valid", FALSE, e)
                                      ELSE Handle("none", FALSE, BlankEvent)]
            /\ catH = [c \in CatIds |-> IF c = 1 THEN Handle("valid", FALSE, k)
                                        ELSE IF c = 2 /\ created THEN Handle("valid", FALSE, dynamic)
                                        ELSE Handle("none", FALSE, BlankCatalogue)]
            /\ last = Call("init", "none", 0)
            /\ saved = StorageView
            /\ ops = 0
            /\ blob = NoBlob
            /\ in_transaction = created

\* the lists of catalogue handles export_json is called with
ExportLists == {<<c>> : c \in CatIds} \cup {<<1, 2>>}

NextImport ==
    /\ ops < MaxImportOps
    /\ \/ \E a \in TxEvents : create_event(a)
       \/ \E a \in TxCatalogues : create_catalogue(a, <<>>)
       \/ \E i \in EvIds : set_event_field(i, "stop", 2)
       \/ \E c \in CatIds : set_catalogue_field(c, "name", <<"b">>)
       \/ \E c \in CatIds : remove_catalogue(c, FALSE)
       \/ \E c \in CatIds : restore_catalogue(c)
       \/ save
       \/ discard
       \/ \E catalogues \in ExportLists : export_json(catalogues)
       \/ import_json

SpecImport == InitImport /\ [][NextImport]_vars

\* --------------------------------------------------- import: the properties
BundledEvents == {blob.events[n] : n \in 1..Len(blob.events)}
BundledCatalogues == {blob.catalogues[n] : n \in 1..Len(blob.catalogues)}
UuidsOf(uuids) == {uuids[n] : n \in 1..Len(uuids)}

\* the events and catalogues of storage that are not in the trash
StoredEvents == {i \in Table("Event") : ~ev[i].removed}
StoredCatalogues == {c \in Table("Catalogue") : ~cat[c].removed}

\* the stored event i has the values of the bundled event e
SameEvent(i, e) == ToJsonEvent(ev[i].d) = e

\* the stored catalogue c has the fields, the predicate and the member events
\* of the bundled catalogue b
SameValues(b, d, m) ==
    /\ d = b.d
    /\ m.err = "none"
    /\ {x.uuid : x \in m.events} = UuidsOf(b.events)
SameCatalogue(c, b) == SameValues(b, ToJsonCatalogue(cat[c].d), MembershipOf(c))

\* every event and catalogue of the bundle is in storage with the same values
AlreadyStored ==
    /\ \A e \in BundledEvents : \E i \in StoredEvents : SameEvent(i, e)
    /\ \A b \in BundledCatalogues : \E c \in StoredCatalogues : SameCatalogue(c, b)

\* the step is a call of import_json
Importing == last'.op = "import_json" /\ ops' = ops + 1

\* C11: importing a bundle whose events and catalogues are all in storage with
\* the same values, as they are when the bundle was just imported, raises
\* nothing, returns no catalogue and leaves storage as it was.
C11_Original ==
    [][(/\ Importing
        /\ \/ AlreadyStored
           \/ last.op = "import_json" /\ last.err = "none")
       => (/\ last'.err = "none"
           /\ last'.id = 0
           /\ UNCHANGED <<ev, cat, members, disk>>)]_vars

\* the fields d or the members m of a stored catalogue are not those of b
Differs(b, d, m) ==
    \/ d # b.d
    \/ m.err = "none" /\ {x.uuid : x \in m.events} # UuidsOf(b.events)

\* an event or a catalogue of the bundle has the UUID of a stored one that
\* differs from it in a field, the predicate or the member events
Conflicting ==
    \/ \E e \in BundledEvents, i \in StoredEvents : ev[i].d.uuid = e.uuid /\ ~SameEvent(i, e)
    \/ \E b \in BundledCatalogues, c \in StoredCatalogues :
          /\ cat[c].d.uuid = b.d.uuid
          /\ Differs(b, ToJsonCatalogue(cat[c].d), MembershipOf(c))

\* C12: importing a bundle that conflicts with a stored event or catalogue
\* raises the conflict error and leaves storage unchanged.
C12_Original ==
    [][(Importing /\ Conflicting)
       => (last'.err = "ValueError" /\ UNCHANGED <<ev, cat, members, disk>>)]_vars

\* the bundle holds every event and catalogue the queries returned when it
\* was exported
BundleIsWhole ==
    /\ {ToJsonEvent(d) : d \in blob.view.events} = BundledEvents
    /\ {ToJsonCatalogue(d) : d \in blob.view.catalogues} = {b.d : b \in BundledCatalogues}

\* what discard() left in storage are events and catalogues of the bundle, with
\* the values the bundle holds
NothingDiffers ==
    /\ \A e \in BundledEvents, i \in Table("Event") :
          ev[i].d.uuid = e.uuid => ~ev[i].removed /\ SameEvent(i, e)
    /\ \A b \in BundledCatalogues, c \in Table("Catalogue") :
          cat[c].d.uuid = b.d.uuid => ~cat[c].removed /\ SameCatalogue(c, b)
    /\ \A i \in StoredEvents : \E e \in BundledEvents : e.uuid = ev[i].d.uuid
    /\ \A c \in StoredCatalogues : \E b \in BundledCatalogues : b.d.uuid = cat[c].d.uuid

\* C13: after export_json of all catalogues, discard() and import_json of the
\* exported data, get_events(), get_catalogues() and get_events(c) of every
\* catalogue return what they returned before the export.
C13_Original ==
    [][(/\ Importing
        /\ last.op = "discard"
        /\ blob.stamp + 1 = ops
        /\ BundleIsWhole
        /\ NothingDiffers)
       => (last'.err = "none" /\ DataView' = blob.view)]_vars


\* What holds of import_json beside the three statements above.
\* A bundle that is stored with predicate objects is imported as a no-op.
ImportOfStoredIsNoOp ==
    [][(Importing /\ AlreadyStored)
       => (/\ last'.err = "none"
           /\ last'.id = 0
           /\ UNCHANGED <<ev, cat, members, disk>>)]_vars

\* While every stored predicate is a predicate object, a conflict raises the
\* conflict error; an import that raises it writes nothing.
ImportConflictsRaise ==
    [][(Importing /\ Conflicting /\ \A c \in Table("Catalogue") : cat[c].d.predicate >= 0)
       => last'.err = "ValueError"]_vars
ImportConflictWritesNothing ==
    [][(Importing /\ last'.err = "ValueError") => UNCHANGED <<ev, cat, members, disk>>]_vars

\* The round trip of static catalogues returns what was exported.
StaticRoundTrip ==
    [][(/\ Importing
        /\ last.op = "discard"
        /\ blob.stamp + 1 = ops
        /\ BundleIsWhole
        /\ NothingDiffers
        /\ \A b \in BundledCatalogues : b.d.predicate = NoPred)
       => (last'.err = "none" /\ DataView' = blob.view)]_vars


\* ------------------------------------------------- has_unsaved_changes()
\* the calls that change storage when they succeed
MutatingOps ==
    {"create_event", "create_catalogue", "setattr", "setattr_attribute", "delattr",
     "setattr_catalogue", "setattr_catalogue_attribute", "delattr_catalogue",
     "remove", "remove_permanently", "restore",
     "remove_catalogue", "remove_catalogue_permanently", "restore_catalogue",
     "add_events_to_catalogue", "remove_events_from_catalogue"}

\* has_unsaved_changes() (base.py:598-599)
has_unsaved_changes == in_transaction

_fixed_keys(orm_class) ==
    IF orm_class = "Event" THEN {"start", "stop", "author", "uuid", "tags", "products", "rating"}
    ELSE {"name", "author", "uuid", "tags", "predicate"}

\* object.__delattr__(handle, key): the entry leaves the handle's __dict__
Deleted(h, key) == [h EXCEPT !.d = [k \in DOMAIN h.d \ {key} |-> h.d[k]]]

\* __delattr__ (base.py:114-121) of a handle for a key of _fixed_keys: the
\* entry is deleted from the handle, then the error is raised
delattr_fixed(h, key) ==
    IF key \notin DOMAIN h.d THEN [err |-> "AttributeError", h |-> h]
    ELSE [err |-> "IndexError", h |-> Deleted(h, key)]

\* del handle.key for a fixed field of an event
del_event_field(i, key) ==
    /\ Step
    /\ evH[i].st # "none"
    /\ evH' = [evH EXCEPT ![i] = delattr_fixed(evH[i], key).h]
    /\ Kept("delattr", delattr_fixed(evH[i], key).err, i)
    /\ UNCHANGED <<ev, cat, members, disk, catH, saved>>

\* del handle.key for a fixed field of a catalogue
del_catalogue_field(c, key) ==
    /\ Step
    /\ catH[c].st # "none"
    /\ catH' = [catH EXCEPT ![c] = delattr_fixed(catH[c], key).h]
    /\ Kept("delattr_catalogue", delattr_fixed(catH[c], key).err, c)
    /\ UNCHANGED <<ev, cat, members, disk, evH, saved>>

\* fixed_attributes() (base.py:95-96): a dict over _fixed_keys read from the
\* handle's __dict__
fixed_attributes(orm_class, i) ==
    /\ Step
    /\ HandleOf(orm_class, i).st # "none"
    /\ Kept(IF orm_class = "Event" THEN "fixed_attributes" ELSE "fixed_attributes_catalogue",
            IF _fixed_keys(orm_class) \subseteq DOMAIN HandleOf(orm_class, i).d THEN "none"
            ELSE "KeyError",
            i)
    /\ UNCHANGED <<ev, cat, members, disk, evH, catH, saved>>

\* attribute names assigned to constructed entities: one that matches
\* _valid_key, and names that do not (setattr(e, '_', 1), setattr(e, '1', 1))
AssignedNames == {AttrKey, <<"_">>, <<"1">>}

\* Deletions of fixed fields on saved events and catalogues, mixed with
\* attribute assignments, removals, save() and discard().
NextDelete ==
    /\ ops < MaxDeleteOps
    /\ \/ \E i \in EvIds, key \in _fixed_keys("Event") : del_event_field(i, key)
       \/ \E c \in CatIds, key \in _fixed_keys("Catalogue") : del_catalogue_field(c, key)
       \/ \E orm_class \in Classes, i \in 1..1 : fixed_attributes(orm_class, i)
       \/ \E i \in EvIds, key \in AssignedNames : set_event_attribute(i, key, IntV(1))
       \/ \E c \in 1..1, key \in AssignedNames : set_catalogue_attribute(c, key, IntV(1))
       \/ \E i \in EvIds : remove_event(i, TRUE)
       \/ save
       \/ discard

SpecDelete == InitQuery /\ [][NextDelete]_vars

\* C22: deleting a fixed field of an event or catalogue raises the fixed-key
\* error and leaves the field with its value on the handle, every fixed field
\* listed by fixed_attributes(), and storage as it was.
C22_Original ==
    [][(ops' = ops + 1 /\ last'.op \in {"delattr", "delattr_catalogue"}
        /\ last'.err \in {"IndexError", "AttributeError"})
       => /\ last'.err = "IndexError"
          /\ evH' = evH /\ catH' = catH
          /\ UNCHANGED <<ev, cat, members, disk>>]_vars

\* What the code keeps of C22: the deletion raises, and storage is unchanged.
FixedDeletionRaises ==
    [][(ops' = ops + 1 /\ last'.op \in {"delattr", "delattr_catalogue"})
       => /\ last'.err \in {"IndexError", "AttributeError"}
          /\ UNCHANGED <<ev, cat, members, disk>>]_vars


\* C23: assigning, on a constructed event or catalogue, an attribute whose
\* name does not match the name pattern raises the validation error and
\* stores nothing, neither on the handle nor in storage.
C23_Original ==
    [][\A key \in AssignedNames :
         ~_valid_key(key) =>
           /\ \A i \in EvIds :
                set_event_attribute(i, key, IntV(1))
                  => /\ last'.err = "ValidationError"
                     /\ evH' = evH
                     /\ UNCHANGED <<ev, cat, members, disk>>
           /\ \A c \in CatIds :
                set_catalogue_attribute(c, key, IntV(1))
                  => /\ last'.err = "ValidationError"
                     /\ catH' = catH
                     /\ UNCHANGED <<ev, cat, members, disk>>]_vars

\* What the code keeps of C23: an assignment under an invalid name never
\* reaches storage.
InvalidNameNotStored ==
    [][\A key \in AssignedNames :
         ~_valid_key(key) =>
           /\ \A i \in EvIds :
                set_event_attribute(i, key, IntV(1)) => UNCHANGED <<ev, cat, members, disk>>
           /\ \A c \in CatIds :
                set_catalogue_attribute(c, key, IntV(1)) => UNCHANGED <<ev, cat, members, disk>>]_vars


\* C24: the UUID of an entity never changes after construction: an assignment
\* to a field of a constructed event or catalogue either raises or leaves the
\* UUID on the handle and in storage equal to the one it had.
C24_Original ==
    [][ops' = ops + 1 =>
         /\ last'.op = "setattr" =>
              \A i \in EvIds : /\ evH'[i].d.uuid = evH[i].d.uuid
                               /\ ev'[i].d.uuid = ev[i].d.uuid
         /\ last'.op = "setattr_catalogue" =>
              \A c \in CatIds : /\ catH'[c].d.uuid = catH[c].d.uuid
                                /\ cat'[c].d.uuid = cat[c].d.uuid]_vars


\* ------------------------------------------------ uniqueness of UUIDs
\* the UUID arguments of the creations: none (generated) and one given value
GivenUuids == {NoUuid, UuidV("v4", 7)}

\* Creations with a generated and with a given UUID, UUID assignments,
\* removals into the trash, save() and discard(), from an empty storage.
NextUuid ==
    /\ ops < MaxUuidOps
    /\ \/ \E u \in GivenUuids : create_event([EventArgs(1, 1, P) EXCEPT !.uuid = u])
       \/ \E u \in GivenUuids : create_catalogue([CatalogueArgs(<<"a">>, NoPred) EXCEPT !.uuid = u], <<>>)
       \/ \E i \in EvIds : set_event_field(i, "uuid", UuidV("v4", 7))
       \/ \E i \in EvIds : remove_event(i, FALSE)
       \/ save
       \/ discard

SpecUuid == Init /\ [][NextUuid]_vars

\* C25: no two events in storage have the same UUID and no two catalogues
\* have the same UUID; a creation given a UUID that an entity of the kind
\* already has never adds a second entity with it.
C25_Original ==
    \A orm_class \in Classes :
        \A i \in Table(orm_class) : \A j \in Table(orm_class) :
            RowOf(orm_class, i).d.uuid = RowOf(orm_class, j).d.uuid => i = j


\* C26: every event record in storage satisfies start <= stop, also after a
\* discard() followed by start/stop assignments through a handle obtained
\* before the discard.
C26_Original ==
    \A i \in Table("Event") : ev[i].d.start <= ev[i].d.stop

\* What the code keeps of C26: the values of every handle satisfy
\* start <= stop, whatever storage holds.
HandleIntervalsOrdered ==
    \A i \in EvIds : evH[i].st # "none" => evH[i].d.start <= evH[i].d.stop


\* C27: after any sequence of remove(), restore(), save() and discard(),
\* is_removed() of every valid handle equals the removed flag of its entity
\* in storage.
C27_Original ==
    /\ \A i \in Table("Event") : evH[i].st = "valid" => evH[i]._removed = ev[i].removed
    /\ \A c \in Table("Catalogue") : catH[c].st = "valid" => catH[c]._removed = cat[c].removed

\* What the code keeps of C27: right after a successful remove() or
\* restore() the flag of the handle is the flag in storage.
RemovedFlagWrittenThrough ==
    /\ (last.op \in {"remove", "restore"} /\ last.err = "none" /\ last.id \in Table("Event"))
         => evH[last.id]._removed = ev[last.id].removed
    /\ (last.op \in {"remove_catalogue", "restore_catalogue"} /\ last.err = "none"
        /\ last.id \in Table("Catalogue"))
         => catH[last.id]._removed = cat[last.id].removed


\* C28: PredicateRecursionError is raised only for a cyclic reference: a
\* query that ends with it was asked while the predicate of some catalogue
\* leads back to that catalogue through InCatalogue.
C28_Original ==
    last.err = "PredicateRecursionError" => \E c \in CatIds : OnCycle(c)


\* the list r is drawn from the list b
Narrowed(r, b) == (r.err = "none" /\ b.err = "none") => EntitySet(r.items) \subseteq EntitySet(b.items)

\* C29: for every catalogue c and every combination of assigned_only and
\* filtered_only, get_events(c, ...) returns a subset of get_events(c).
C29_Original ==
    (last.op \in {"get_events_of_catalogue", "get_events_assigned_only", "get_events_filtered_only"}
     /\ last.err = "none")
        => \A assigned_only \in BOOLEAN, filtered_only \in BOOLEAN :
               Narrowed(_get_events_from_catalogue(last.id, FALSE, assigned_only, filtered_only),
                        _get_events_from_catalogue(last.id, FALSE, FALSE, FALSE))

\* What the code keeps of C29: assigned_only alone narrows every catalogue,
\* and filtered_only alone narrows every dynamic catalogue.
SingleFlagNarrows ==
    (last.op \in {"get_events_of_catalogue", "get_events_assigned_only", "get_events_filtered_only"}
     /\ last.err = "none")
        => /\ Narrowed(_get_events_from_catalogue(last.id, FALSE, TRUE, FALSE),
                       _get_events_from_catalogue(last.id, FALSE, FALSE, FALSE))
           /\ catH[last.id].d.predicate # NoPred
                => Narrowed(_get_events_from_catalogue(last.id, FALSE, FALSE, TRUE),
                            _get_events_from_catalogue(last.id, FALSE, FALSE, FALSE))


\* the calls that write several times
MultiWriteOps == {"add_events_to_catalogue", "remove_events_from_catalogue", "create_catalogue"}

\* C30: a call that performs several writes and raises midway leaves storage
\* as it was before the call: a rejected list of events adds or removes none
\* of its events, and create_catalogue whose event assignment fails leaves no
\* new catalogue.
C30_Original ==
    [][(ops' = ops + 1 /\ last'.op \in MultiWriteOps /\ last'.err # "none")
          => UNCHANGED <<ev, cat, members, disk>>]_vars

\* What the code keeps of C30: a call that raises at its first write, and a
\* creation that fails validation, change nothing.
FirstWriteRaisesClean ==
    [][/\ \A c \in CatIds, i \in EvIds :
            (add_events(c, <<i>>) /\ last'.err # "none") => UNCHANGED <<ev, cat, members, disk>>
       /\ \A c \in CatIds, i \in EvIds :
            (remove_events(c, <<i>>) /\ last'.err # "none") => UNCHANGED <<ev, cat, members, disk>>
       /\ (ops' = ops + 1 /\ last'.op = "create_catalogue" /\ last'.err = "ValidationError")
            => UNCHANGED <<ev, cat, members, disk>>]_vars

====
